---- MODULE Spec2Model ----
(***************************************************************************)
(* Version-resolution engine of unnamed_versioning_tool: conventional-     *)
(* commit classification (conventional_commits.ts), the aggregation of     *)
(* PR-level and commit-level impact (getImpactFromGithub in main.ts) and   *)
(* semantic versions (semver.ts).                                          *)
(*                                                                         *)
(* Strings are TLA+ strings read one character at a time with SubSeq, and  *)
(* the regular expressions of the source are evaluated as JavaScript       *)
(* evaluates them.  Numbers are integers; the values an object literal     *)
(* inherits from Object.prototype are integers from 100 on, and NaN is -1. *)
(* A value that may be undefined is a record: undefined itself, a          *)
(* ParsedCommitInfo, or Some(v) for a number or a string v.                *)
(*                                                                         *)
(* One specification per operation: SpecTitle (ParseConventionalTitle),    *)
(* SpecBody (ParseConventionalBody), SpecObject (getConventionalImpact),   *)
(* Spec (getImpactFromGithub), SpecParse (SemanticVersion.parse),          *)
(* SpecVersion (constructor, toString, as_tag, parse, bump), SpecCompare   *)
(* (compare, comparePrerelease), SpecRc (nextRcIndex) and SpecResolver      *)
(* (handle_release_candidates in main.ts).                                 *)
(***************************************************************************)
EXTENDS Integers, Sequences, FiniteSets, TLC

VARIABLES
    title,        \* argument of the ParseConventionalTitle call
    parsed,       \* its return value
    body,         \* argument of the ParseConventionalBody call
    parts,        \* ghost: the pieces body was assembled from
    body_impact,  \* its return value
    object,       \* argument of the getConventionalImpact call
    impact,       \* its return value
    pr,           \* getImpactFromGithub: the pull request
    commits,      \* getImpactFromGithub: the commits of the pull request
    result,       \* the ImpactResult it returns
    failed,       \* messages passed to core.setFailed
    parse_arg,       \* argument of the SemanticVersion.parse call
    version_parts,   \* ghost: the pieces parse_arg was assembled from
    parsed_version,  \* its return value
    ctor_args,    \* arguments of the constructor call
    instance,     \* the SemanticVersion it built, or the error it threw
    text,         \* what toString() or as_tag() returned for instance
    reparsed,     \* what SemanticVersion.parse returned for text
    bump_args,    \* arguments of the bump call on instance
    bumped,       \* its return value
    operands,     \* the versions handed to SemanticVersion.compare
    collation,    \* the order String.prototype.localeCompare follows
    order,        \* compare(operands[i], operands[j]) for each i, j
    rc_base,      \* nextRcIndex: the base version
    rc_tags,      \* nextRcIndex: the tag names
    rc_index,     \* its return value
    revision,       \* the revision of main.ts that runs
    resolver_args,  \* arguments of the handle_release_candidates call
    local_rc,       \* what the lookup of tags in the local repository gives
    github_rc,      \* what the lookup of tags through the GitHub API gives
    rc_prerelease,  \* return value of handle_release_candidates
    pep_self,     \* the SemanticVersion as_pep_440 is called on
    pep_440,      \* what as_pep_440() returned for it
    run_env,      \* run(): the environment variables, the inputs of the
                  \* action, the context and what the lookups give
    run_pc,       \* the statement run() is at
    run_last,     \* last_release_version
    run_impact,   \* impactRes
    run_prerelease,  \* prerelease
    run_version,  \* new_version
    run_failed,   \* the messages passed to core.setFailed, in order
    run_files,    \* the paths written with writeFile
    run_outputs,  \* the outputs set with core.setOutput
    run_summary,  \* whether the job summary was written
    gh_cache,     \* GH_CACHE: the entries of its Map, in insertion order
    operations,   \* the API operations started so far, each with its key,
                  \* how far its promise chain has come and its outcome
    evictions,    \* ghost: for each GH_CACHE.delete that removed an entry,
                  \* the operation that called it and the one it removed
    notes_commits,  \* argument of the generateReleaseNotes call
    release_notes   \* its return value

conventionalVars == <<title, parsed, body, parts, body_impact, object, impact,
                      pr, commits, result, failed>>
parseVars == <<parse_arg, version_parts, parsed_version>>
versionVars == <<ctor_args, instance, text, reparsed, bump_args, bumped>>
compareVars == <<operands, collation, order>>
rcVars == <<rc_base, rc_tags, rc_index>>
semverVars == <<parseVars, versionVars, compareVars, rcVars>>
resolverVars == <<revision, resolver_args, local_rc, github_rc, rc_prerelease>>
pepVars == <<pep_self, pep_440>>
runVars == <<run_env, run_pc, run_last, run_impact, run_prerelease,
             run_version, run_failed, run_files, run_outputs, run_summary>>
cacheVars == <<gh_cache, operations, evictions>>
notesVars == <<notes_commits, release_notes>>
restVars == <<pepVars, runVars, cacheVars, notesVars>>

vars == <<conventionalVars, semverVars, resolverVars, restVars>>

-----------------------------------------------------------------------------
(* Bounds of the model *)

\* longest commit list handed to getImpactFromGithub
MaxCommits == 2
\* largest number of pieces a body is assembled from
MaxParts == 3
\* largest major, minor or patch number a version is constructed with
MaxNumber == 10
\* longest list of tag names handed to nextRcIndex
MaxTags == 3
\* largest number of labels on a pull request
MaxLabels == 2

-----------------------------------------------------------------------------
(* JavaScript values *)

\* enum Impact
NOIMPACT == 0
PATCH == 1
MINOR == 2
MAJOR == 3
Impact == {NOIMPACT, PATCH, MINOR, MAJOR}

\* the value undefined
undefined == [undefined |-> TRUE]
\* a number or a string where undefined may stand as well
Some(v) == [value |-> v]
\* an operation that has not been called yet
NotCalled == [called |-> FALSE]

\* Math.max of anything that does not convert to a number
NaN == -1

\* The properties every object literal inherits from Object.prototype, with
\* the (non-numeric) values they hold: functions and objects, told apart
\* from numbers by being 100 or more.
ObjectPrototype ==
    [constructor |-> 100, toString |-> 101, valueOf |-> 102,
     hasOwnProperty |-> 103, isPrototypeOf |-> 104,
     propertyIsEnumerable |-> 105, toLocaleString |-> 106,
     __proto__ |-> 107]

IsNumber(v) == v \in Impact

\* key in obj, for an object literal obj: own and inherited properties
In(key, obj) == key \in DOMAIN obj \/ key \in DOMAIN ObjectPrototype

\* obj[key], for a key with In(key, obj)
Get(obj, key) == IF key \in DOMAIN obj THEN obj[key] ELSE ObjectPrototype[key]

-----------------------------------------------------------------------------
(* Characters *)

Char(s, i) == SubSeq(s, i, i)

Lower == {"a","b","c","d","e","f","g","h","i","j","k","l","m",
          "n","o","p","q","r","s","t","u","v","w","x","y","z"}
Upper == {"A","B","C","D","E","F","G","H","I","J","K","L","M",
          "N","O","P","Q","R","S","T","U","V","W","X","Y","Z"}
Digit == {"0","1","2","3","4","5","6","7","8","9"}

\* \w
IsWord(c) == c \in Lower \cup Upper \cup Digit \cup {"_"}
\* \s
IsSpace(c) == c \in {" ", "\t", "\n", "\r", "\f"}
\* what . does not match
IsLineTerminator(c) == c \in {"\n", "\r"}

\* lit occurs in s at position i
MatchesAt(s, i, lit) ==
    /\ i >= 1
    /\ i + Len(lit) - 1 <= Len(s)
    /\ SubSeq(s, i, i + Len(lit) - 1) = lit

\* s.includes(lit)
Includes(s, lit) == \E i \in 1..(Len(s) + 1) : MatchesAt(s, i, lit)

-----------------------------------------------------------------------------
(* conventional_commits.ts *)

\* mutant: the table without its chore entry
TypeToImpactMappingWithoutChore ==
    [docs |-> NOIMPACT, style |-> NOIMPACT, test |-> NOIMPACT,
     build |-> NOIMPACT, ci |-> NOIMPACT,
     refactor |-> PATCH, fix |-> PATCH, perf |-> PATCH,
     feat |-> MINOR]

TypeToImpactMapping ==
    [docs |-> NOIMPACT, style |-> NOIMPACT, test |-> NOIMPACT,
     chore |-> NOIMPACT, build |-> NOIMPACT, ci |-> NOIMPACT,
     refactor |-> PATCH, fix |-> PATCH, perf |-> PATCH,
     feat |-> MINOR]

\* the regular expression found no match
NoMatch == [matched |-> FALSE]

\* last index of the run of word characters of s that starts at i (i - 1 if none)
RECURSIVE WordRunEnd(_, _)
WordRunEnd(s, i) ==
    IF i <= Len(s) /\ IsWord(Char(s, i)) THEN WordRunEnd(s, i + 1) ELSE i - 1

\* index of the first ")" of s at or after i (0 if none)
RECURSIVE FirstClose(_, _)
FirstClose(s, i) ==
    IF i > Len(s) THEN 0
    ELSE IF Char(s, i) = ")" THEN i
    ELSE FirstClose(s, i + 1)

\* title.match(/^(?<type>\w+)(?:\((?<scope>[^)]+)\))?(?<breaking>!)?:\s*(?<description>.*)$/)
\* Every quantifier of the pattern is followed by a character it cannot
\* itself match, so the greedy choice is the only one that can succeed.
TitleMatch(s) ==
    LET n == Len(s)
        e == WordRunEnd(s, 1)
        c == IF e + 1 <= n /\ Char(s, e + 1) = "(" THEN FirstClose(s, e + 2) ELSE 0
        hasScope == c >= e + 3
        p == IF hasScope THEN c + 1 ELSE e + 1
        breaking == p <= n /\ Char(s, p) = "!"
        q == IF breaking THEN p + 1 ELSE p
        \* \s*(.*)$ : blanks, then no line terminator up to the end of the input
        tail == \E k \in q..n :
                   /\ \A i \in (q + 1)..k : IsSpace(Char(s, i))
                   /\ \A i \in (k + 1)..n : ~IsLineTerminator(Char(s, i))
    IN  IF e >= 1 /\ q <= n /\ Char(s, q) = ":" /\ tail
        THEN [matched |-> TRUE, type |-> SubSeq(s, 1, e), breaking |-> breaking]
        ELSE NoMatch

ParseConventionalTitle(t) ==
    LET match == TitleMatch(t) IN
    IF match = NoMatch THEN undefined
    ELSE LET commit_type == match.type IN
         IF commit_type = "" THEN undefined
         ELSE IF ~In(commit_type, TypeToImpactMapping) THEN undefined
         ELSE [type |-> commit_type,
               impact |-> IF match.breaking THEN MAJOR
                          ELSE Get(TypeToImpactMapping, commit_type)]

\* the literal text the pattern of ParseConventionalBody starts and ends with
ReleaseNotesOpen == "---\n\n### Release Notes\n\n<details>"
ReleaseNotesClose == "</details>\n\n---"

\* (?:.|\n)* can run over s[from..to]: no character there is a line
\* terminator other than \n
DotOrNewline(s, from, to) == \A i \in from..to : Char(s, i) # "\r"

\* the starts j of a closing literal that a match opened at i can end with
CloseStarts(s, i) ==
    { j \in (i + Len(ReleaseNotesOpen))..Len(s) :
        /\ MatchesAt(s, j, ReleaseNotesClose)
        /\ DotOrNewline(s, i + Len(ReleaseNotesOpen), j - 1) }

\* the positions at which the pattern matches
MatchStarts(s) ==
    { i \in 1..Len(s) : MatchesAt(s, i, ReleaseNotesOpen) /\ CloseStarts(s, i) # {} }

Min(S) == CHOOSE x \in S : \A y \in S : x <= y
Max(S) == CHOOSE x \in S : \A y \in S : x >= y

\* body.replace(re, ''): the leftmost match, extended by the greedy star to
\* the last closing literal it can reach, is cut out; later matches stay
StripReleaseNotes(s) ==
    IF MatchStarts(s) = {} THEN s
    ELSE LET i == Min(MatchStarts(s))
             j == Max(CloseStarts(s, i))
         IN  SubSeq(s, 1, i - 1) \o
             SubSeq(s, j + Len(ReleaseNotesClose), Len(s))

ParseConventionalBody(b) ==
    LET clean_body == StripReleaseNotes(b) IN
    IF Includes(clean_body, "BREAKING CHANGE") THEN Some(MAJOR) ELSE undefined

\* body_impact > impact.impact: a value that is not a number converts to NaN,
\* and every comparison with NaN is false
GreaterThan(a, b) == IsNumber(a) /\ IsNumber(b) /\ a > b

\* object.body is truthy: present and not the empty string
HasBody(obj) == "body" \in DOMAIN obj /\ obj.body # ""

\* mutant: the body is consulted even when the title does not parse
getConventionalImpactBodyAlone(obj) ==
    LET title_impact == ParseConventionalTitle(obj.title)
        bi == IF HasBody(obj) THEN ParseConventionalBody(obj.body) ELSE undefined
    IN  IF title_impact = undefined
        THEN (IF bi # undefined THEN [type |-> "", impact |-> bi.value] ELSE undefined)
        ELSE IF bi # undefined /\ GreaterThan(bi.value, title_impact.impact)
             THEN [title_impact EXCEPT !.impact = bi.value]
             ELSE title_impact

getConventionalImpact(obj) ==
    LET title_impact == ParseConventionalTitle(obj.title) IN
    IF title_impact = undefined THEN undefined
    ELSE IF HasBody(obj)
         THEN LET bi == ParseConventionalBody(obj.body) IN
              IF bi # undefined /\ GreaterThan(bi.value, title_impact.impact)
              THEN [title_impact EXCEPT !.impact = bi.value]
              ELSE title_impact
         ELSE title_impact

-----------------------------------------------------------------------------
(* main.ts: getImpactFromGithub *)

\* Impact[v], the enum's reverse mapping, as a template literal prints it
ImpactName(v) ==
    IF v = NOIMPACT THEN "NOIMPACT"
    ELSE IF v = PATCH THEN "PATCH"
    ELSE IF v = MINOR THEN "MINOR"
    ELSE IF v = MAJOR THEN "MAJOR"
    ELSE "undefined"

\* Math.max(...values): NaN as soon as one value does not convert to a number
MathMax(values) ==
    IF \E i \in DOMAIN values : ~IsNumber(values[i]) THEN NaN
    ELSE Max({ values[i] : i \in DOMAIN values })

\* a != b and a === b on numbers and object references: NaN is equal to
\* nothing, itself included
NotEqual(a, b) == a = NaN \/ b = NaN \/ a # b
StrictEqual(a, b) == a # NaN /\ b # NaN /\ a = b

\* the loop over the commits: the impacts of those that classify, in order
RECURSIVE CommitImpacts(_)
CommitImpacts(cs) ==
    IF cs = <<>> THEN <<>>
    ELSE LET commit_impact == getConventionalImpact(Head(cs)) IN
         (IF commit_impact # undefined THEN <<commit_impact>> ELSE <<>>)
             \o CommitImpacts(Tail(cs))

MaxCommitImpact(commit_impacts) ==
    IF Len(commit_impacts) > 0
    THEN Some(MathMax([i \in DOMAIN commit_impacts |-> commit_impacts[i].impact]))
    ELSE undefined

\* commit_impacts.find((c) => c.impact === m)
RECURSIVE Find(_, _)
Find(commit_impacts, m) ==
    IF commit_impacts = <<>> THEN undefined
    ELSE IF StrictEqual(Head(commit_impacts).impact, m) THEN Head(commit_impacts)
    ELSE Find(Tail(commit_impacts), m)

\* the condition of the first branch
Differ(pr_impact, max_commit_impact) ==
    /\ pr_impact # undefined
    /\ max_commit_impact # undefined
    /\ NotEqual(pr_impact.impact, max_commit_impact.value)

\* mutant: a higher maximum commit impact overrides the PR title
FinalImpactHighestWins(pr_impact, commit_impacts, max_commit_impact) ==
    IF Differ(pr_impact, max_commit_impact)
    THEN (IF GreaterThan(max_commit_impact.value, pr_impact.impact)
          THEN Find(commit_impacts, max_commit_impact.value)
          ELSE pr_impact)
    ELSE IF pr_impact # undefined THEN pr_impact
    ELSE IF max_commit_impact # undefined
         THEN Find(commit_impacts, max_commit_impact.value)
    ELSE undefined

FinalImpact(pr_impact, commit_impacts, max_commit_impact) ==
    IF Differ(pr_impact, max_commit_impact) THEN pr_impact
    ELSE IF pr_impact # undefined THEN pr_impact
    ELSE IF max_commit_impact # undefined
         THEN Find(commit_impacts, max_commit_impact.value)
    ELSE undefined

\* mutant: the warning is set only when the commits ask for more than the title
WarningOnlyWhenHigher(pr_impact, max_commit_impact) ==
    IF /\ Differ(pr_impact, max_commit_impact)
       /\ GreaterThan(max_commit_impact.value, pr_impact.impact)
    THEN Some("Impact from PR title differs from maximum commit impact.")
    ELSE undefined

Warning(pr_impact, max_commit_impact) ==
    IF Differ(pr_impact, max_commit_impact)
    THEN Some("Impact from PR title (" \o ImpactName(pr_impact.impact)
              \o ") differs from maximum commit impact ("
              \o ImpactName(max_commit_impact.value)
              \o "). Using PR title impact (" \o ImpactName(pr_impact.impact)
              \o ") for version bump.")
    ELSE undefined

\* the calls of core.setFailed the function makes
SetFailed(pr_impact, max_commit_impact) ==
    IF pr_impact = undefined /\ max_commit_impact = undefined
    THEN <<"No Impact determined.">>
    ELSE <<>>

\* the object the function returns, from the two classifications
ImpactResult(pr_impact, commit_impacts) ==
    [prImpact |-> pr_impact,
     commitImpacts |-> commit_impacts,
     maxCommitImpact |-> MaxCommitImpact(commit_impacts),
     finalImpact |-> FinalImpact(pr_impact, commit_impacts,
                                 MaxCommitImpact(commit_impacts)),
     warning |-> Warning(pr_impact, MaxCommitImpact(commit_impacts))]

\* pr_impact and commit_impacts are computed once, before the branches
getImpactFromGithub(p, cs) ==
    CHOOSE r \in { ImpactResult(pr_impact, commit_impacts) :
                      pr_impact \in {getConventionalImpact(p)},
                      commit_impacts \in {CommitImpacts(cs)} } : TRUE

-----------------------------------------------------------------------------
(* Inputs *)

TypeTokens ==
    {"docs", "style", "test", "chore", "build", "ci", "refactor", "fix",
     "perf", "feat", "Feat", "FIX", "unknown", "feat-prod", "feat2", "",
     "constructor", "toString"}
Scopes == {"", "(api)", "()", "(a", "(a)(b)"}
Bangs == {"", "!", "!!"}
Separators == {":", ": ", "", " :", ":\n"}
Descriptions == {"x", "", "a\nb", "not conventional"}

Titles ==
    { ty \o sc \o bg \o sp \o de :
        ty \in TypeTokens, sc \in Scopes, bg \in Bangs,
        sp \in Separators, de \in Descriptions }

\* The pieces bodies are assembled from: a line of prose, a BREAKING CHANGE
\* footer of the pull request itself, a renovate block quoting upstream
\* release notes with a BREAKING CHANGES heading, one without, and a
\* Windows line break.
PartNames == {"text", "breaking", "quoted", "notes", "crlf"}

PartText(name) ==
    IF name = "text" THEN "This PR updates a dependency.\n"
    ELSE IF name = "breaking" THEN "BREAKING CHANGE: changed API behavior.\n"
    ELSE IF name = "quoted"
         THEN ReleaseNotesOpen \o "\n##### BREAKING CHANGES\n\n- Require Node.js\n"
              \o ReleaseNotesClose \o "\n"
    ELSE IF name = "notes"
         THEN ReleaseNotesOpen \o "\n<summary>eslint</summary>\n"
              \o ReleaseNotesClose \o "\n"
    ELSE "\r\n"

RECURSIVE Join(_)
Join(ps) == IF ps = <<>> THEN "" ELSE PartText(Head(ps)) \o Join(Tail(ps))

PartSeqs == UNION { [1..n -> PartNames] : n \in 0..MaxParts }

\* titles of the items handed to getConventionalImpact and getImpactFromGithub
ItemTitles ==
    {"chore: trivial", "docs: x", "fix: y", "perf: p", "feat: z",
     "feat!: break", "not conventional", "Feat: x", "constructor: x"}

Objects ==
    { [title |-> t] : t \in ItemTitles } \cup
    { [title |-> t, body |-> Join(ps)] : t \in ItemTitles, ps \in PartSeqs }

PrTitles == {"chore: trivial", "fix: y", "feat!: break", "not conventional",
             "constructor: x"}
CommitTitles == {"docs: x", "fix: y", "perf: p", "feat!: break",
                 "not conventional", "constructor: x"}

PullRequests ==
    { [title |-> t, body |-> b] :
        t \in PrTitles, b \in {"", PartText("breaking")} }

Commits ==
    { [title |-> t] : t \in CommitTitles } \cup
    { [title |-> t, body |-> PartText("breaking")] : t \in CommitTitles }

CommitLists == UNION { [1..n -> Commits] : n \in 0..MaxCommits }

-----------------------------------------------------------------------------
(* Specifications: each draws the arguments of one operation and calls it *)

IdleTitle == title = "" /\ parsed = NotCalled
IdleBody == body = "" /\ parts = <<>> /\ body_impact = NotCalled
IdleObject == object = [title |-> ""] /\ impact = NotCalled
IdleAggregate ==
    /\ pr = [title |-> "", body |-> ""]
    /\ commits = <<>>
    /\ result = NotCalled
    /\ failed = <<>>

IdleConventional == IdleTitle /\ IdleBody /\ IdleObject /\ IdleAggregate

IdleParse == parse_arg = "" /\ version_parts = <<>> /\ parsed_version = NotCalled
IdleVersion ==
    /\ ctor_args = NotCalled /\ instance = NotCalled
    /\ text = NotCalled /\ reparsed = NotCalled
    /\ bump_args = NotCalled /\ bumped = NotCalled
IdleCompare == operands = NotCalled /\ collation = "" /\ order = NotCalled
IdleRc == rc_base = NotCalled /\ rc_tags = <<>> /\ rc_index = NotCalled
IdleSemver == IdleParse /\ IdleVersion /\ IdleCompare /\ IdleRc
IdleResolver ==
    /\ revision = "" /\ resolver_args = NotCalled
    /\ local_rc = NotCalled /\ github_rc = NotCalled
    /\ rc_prerelease = NotCalled
IdlePep == pep_self = NotCalled /\ pep_440 = NotCalled
IdleRun ==
    /\ run_env = NotCalled /\ run_pc = "" /\ run_last = NotCalled
    /\ run_impact = NotCalled /\ run_prerelease = NotCalled
    /\ run_version = NotCalled /\ run_failed = <<>> /\ run_files = {}
    /\ run_outputs = <<>> /\ run_summary = FALSE
IdleCache == gh_cache = <<>> /\ operations = <<>> /\ evictions = {}
IdleNotes == notes_commits = <<>> /\ release_notes = NotCalled
IdleRest == IdlePep /\ IdleRun /\ IdleCache /\ IdleNotes

CallParseConventionalTitle ==
    /\ parsed = NotCalled
    /\ parsed' = ParseConventionalTitle(title)
    /\ UNCHANGED <<title, body, parts, body_impact, object, impact,
                   pr, commits, result, failed>>
    /\ UNCHANGED <<semverVars, resolverVars, restVars>>

CallParseConventionalBody ==
    /\ body_impact = NotCalled
    /\ body_impact' = ParseConventionalBody(body)
    /\ UNCHANGED <<title, parsed, body, parts, object, impact,
                   pr, commits, result, failed>>
    /\ UNCHANGED <<semverVars, resolverVars, restVars>>

CallGetConventionalImpact ==
    /\ impact = NotCalled
    /\ impact' = getConventionalImpact(object)
    /\ UNCHANGED <<title, parsed, body, parts, body_impact, object,
                   pr, commits, result, failed>>
    /\ UNCHANGED <<semverVars, resolverVars, restVars>>

CallGetImpactFromGithub ==
    /\ result = NotCalled
    /\ result' = getImpactFromGithub(pr, commits)
    /\ failed' = failed \o SetFailed(result'.prImpact, result'.maxCommitImpact)
    /\ UNCHANGED <<title, parsed, body, parts, body_impact, object, impact,
                   pr, commits>>
    /\ UNCHANGED <<semverVars, resolverVars, restVars>>

\* ParseConventionalTitle
InitTitle ==
    /\ title \in Titles /\ parsed = NotCalled
    /\ IdleBody /\ IdleObject /\ IdleAggregate /\ IdleSemver /\ IdleResolver /\ IdleRest
NextTitle == CallParseConventionalTitle
SpecTitle == InitTitle /\ [][NextTitle]_vars

\* ParseConventionalBody
InitBody ==
    /\ parts \in PartSeqs /\ body = Join(parts) /\ body_impact = NotCalled
    /\ IdleTitle /\ IdleObject /\ IdleAggregate /\ IdleSemver /\ IdleResolver /\ IdleRest
NextBody == CallParseConventionalBody
SpecBody == InitBody /\ [][NextBody]_vars

\* getConventionalImpact
InitObject ==
    /\ object \in Objects /\ impact = NotCalled
    /\ IdleTitle /\ IdleBody /\ IdleAggregate /\ IdleSemver /\ IdleResolver /\ IdleRest
NextObject == CallGetConventionalImpact
SpecObject == InitObject /\ [][NextObject]_vars

\* getImpactFromGithub
Init ==
    /\ pr \in PullRequests /\ commits \in CommitLists
    /\ result = NotCalled /\ failed = <<>>
    /\ IdleTitle /\ IdleBody /\ IdleObject /\ IdleSemver /\ IdleResolver /\ IdleRest
Next == CallGetImpactFromGithub
Spec == Init /\ [][Next]_vars

-----------------------------------------------------------------------------
(* Properties of getImpactFromGithub, checked under Spec *)

Called == result # NotCalled

\* C1: whenever the PR item itself classifies, finalImpact is prImpact,
\* whatever the commits classify to.
C1_PrImpactWins ==
    (Called /\ result.prImpact # undefined) => result.finalImpact = result.prImpact

\* C1 witness: the PR classifies and a commit has a strictly higher impact
C1_Witness ==
    /\ Called
    /\ result.prImpact # undefined
    /\ \E i \in DOMAIN result.commitImpacts :
          GreaterThan(result.commitImpacts[i].impact, result.prImpact.impact)
    /\ result.finalImpact = result.prImpact

\* C2: a warning is set exactly when prImpact and maxCommitImpact are both
\* present and their impacts differ.
C2_WarningIffDiffer ==
    Called =>
        ( result.warning # undefined
          <=> /\ result.prImpact # undefined
              /\ result.maxCommitImpact # undefined
              /\ result.prImpact.impact # result.maxCommitImpact.value )

\* C2 witness: both present with different impacts, and the warning is set
C2_Witness ==
    /\ Called
    /\ result.prImpact # undefined
    /\ result.maxCommitImpact # undefined
    /\ result.prImpact.impact # result.maxCommitImpact.value
    /\ result.warning # undefined

\* the commits of cs that classify
RECURSIVE Classifying(_)
Classifying(cs) ==
    IF cs = <<>> THEN <<>>
    ELSE (IF getConventionalImpact(Head(cs)) # undefined THEN <<Head(cs)>> ELSE <<>>)
             \o Classifying(Tail(cs))

\* C3: when the PR item does not classify and at least one commit does,
\* finalImpact is the first entry of commitImpacts, in input order, whose
\* impact is the maximum over the classified commits; commits that do not
\* classify are dropped and do not change the result.
C3_FirstMaxCommit ==
    (Called /\ result.prImpact = undefined /\ Len(result.commitImpacts) > 0) =>
        /\ \E i \in DOMAIN result.commitImpacts :
              /\ result.finalImpact = result.commitImpacts[i]
              /\ \A j \in DOMAIN result.commitImpacts :
                    result.commitImpacts[j].impact <= result.commitImpacts[i].impact
              /\ \A j \in 1..(i - 1) :
                    result.commitImpacts[j].impact < result.commitImpacts[i].impact
        /\ Len(result.commitImpacts) = Len(Classifying(commits))
        /\ \A i \in DOMAIN result.commitImpacts :
              result.commitImpacts[i] = getConventionalImpact(Classifying(commits)[i])

\* C4: finalImpact is absent if and only if neither the PR item nor any
\* commit classifies, and then the failure 'No Impact determined.' is
\* signalled.
C4_AbsentIffNothingClassifies ==
    Called =>
        /\ result.finalImpact = undefined
           <=> (result.prImpact = undefined /\ result.commitImpacts = <<>>)
        /\ result.finalImpact = undefined => failed = <<"No Impact determined.">>

\* the aggregation of the test 'aggregates commit impacts and picks max'
C5_Case ==
    /\ Called
    /\ pr = [title |-> "chore: trivial", body |-> ""]
    /\ commits = <<[title |-> "docs: x"], [title |-> "fix: y"]>>

\* C5 as stated: PR "chore: trivial" with commits "docs: x", "fix: y" yields
\* final impact PATCH and no warning.
C5_Original ==
    C5_Case =>
        /\ result.finalImpact # undefined
        /\ result.finalImpact.impact = PATCH
        /\ result.warning = undefined

\* C5 amended: that aggregation yields the PR title's own classification,
\* type chore with impact NOIMPACT, and a warning that it differs from the
\* maximum commit impact PATCH.
C5_TitleClassifiesAsNoImpact ==
    C5_Case =>
        /\ result.finalImpact = [type |-> "chore", impact |-> NOIMPACT]
        /\ result.maxCommitImpact = Some(PATCH)
        /\ result.warning # undefined

\* C5 witness: the aggregation has run on exactly these inputs
C5_Witness == C5_Case /\ result.finalImpact # undefined

-----------------------------------------------------------------------------
(* Properties of ParseConventionalTitle, checked under SpecTitle *)

RecognizedTypes ==
    {"docs", "style", "test", "chore", "build", "ci", "refactor", "fix",
     "perf", "feat"}

\* C6: none for every title that does not match the pattern and for every
\* matching title whose type is not one of the ten tags; never a record
\* whose type is outside the ten tags.
C6_OnlyRecognizedTypes ==
    parsed # NotCalled =>
        /\ TitleMatch(title) = NoMatch => parsed = undefined
        /\ (TitleMatch(title) # NoMatch
              /\ TitleMatch(title).type \notin RecognizedTypes) => parsed = undefined
        /\ parsed # undefined => parsed.type \in RecognizedTypes

\* the impact the table of the specification gives a recognized type
TableImpact(type) ==
    IF type \in {"docs", "style", "test", "chore", "build", "ci"} THEN NOIMPACT
    ELSE IF type \in {"refactor", "fix", "perf"} THEN PATCH
    ELSE MINOR

\* C7: for every accepted title the impact is MAJOR if the '!' marker is
\* present and otherwise the table value of its type, one of NOIMPACT,
\* PATCH and MINOR; the returned type is the title's type token.
C7_ImpactOfAcceptedTitle ==
    (parsed # NotCalled /\ parsed # undefined) =>
        /\ parsed.type = TitleMatch(title).type
        /\ IF TitleMatch(title).breaking
           THEN parsed.impact = MAJOR
           ELSE /\ parsed.type \in RecognizedTypes
                /\ parsed.impact = TableImpact(parsed.type)

-----------------------------------------------------------------------------
(* Properties of getConventionalImpact, checked under SpecObject *)

\* C8: none whenever the title fails ParseConventionalTitle, whatever the
\* body contains.
C8_TitleFirst ==
    (impact # NotCalled /\ ParseConventionalTitle(object.title) = undefined)
        => impact = undefined

\* C8 witness: the title fails and the body alone carries a BREAKING CHANGE
C8_Witness ==
    /\ impact # NotCalled
    /\ ParseConventionalTitle(object.title) = undefined
    /\ HasBody(object)
    /\ ParseConventionalBody(object.body) = Some(MAJOR)
    /\ impact = undefined

\* C9: when the title parses, the type is the title's and the impact is
\* MAJOR if the body yields MAJOR and the title impact otherwise; an absent
\* or empty body leaves the title impact unchanged.
C9_BodyRaisesToMajor ==
    (impact # NotCalled /\ ParseConventionalTitle(object.title) # undefined) =>
        /\ impact # undefined
        /\ impact.type = ParseConventionalTitle(object.title).type
        /\ impact.impact =
              IF HasBody(object) /\ ParseConventionalBody(object.body) = Some(MAJOR)
              THEN MAJOR
              ELSE ParseConventionalTitle(object.title).impact

-----------------------------------------------------------------------------
(* Properties of ParseConventionalBody, checked under SpecBody *)

\* C10: MAJOR for every body with a BREAKING CHANGE line of its own outside
\* the renovate blocks, however many such blocks the body holds.
C10_GenuineBreakingKept ==
    (body_impact # NotCalled /\ \E i \in DOMAIN parts : parts[i] = "breaking")
        => body_impact = Some(MAJOR)

\* C11: none for every body whose only occurrences of BREAKING CHANGE lie
\* inside renovate blocks: quoted upstream release notes never trigger
\* MAJOR on their own.
C11_QuotedNotesNeverBreaking ==
    ( /\ body_impact # NotCalled
      /\ \A i \in DOMAIN parts : parts[i] # "breaking"
      /\ \E i \in DOMAIN parts : parts[i] = "quoted" )
        => body_impact = undefined

\* the body holds no carriage return
C11_OnlyLineFeeds == \A i \in DOMAIN parts : parts[i] # "crlf"

-----------------------------------------------------------------------------
(* semver.ts: strings and numbers *)

\* [0-9a-zA-Z-]
IdentifierChars == Digit \cup Lower \cup Upper \cup {"-"}

\* every character of s is in set
AllIn(s, set) == \A i \in 1..Len(s) : Char(s, i) \in set

\* position of the one-character string c in str, 0 when it is not there
IndexOf(c, str) ==
    IF \E i \in 1..Len(str) : Char(str, i) = c
    THEN CHOOSE i \in 1..Len(str) : Char(str, i) = c
    ELSE 0

LowerCaseLetters == "abcdefghijklmnopqrstuvwxyz"
UpperCaseLetters == "ABCDEFGHIJKLMNOPQRSTUVWXYZ"
DecimalDigits == "0123456789"

\* c.toLowerCase(), one character
CharToLowerCase(c) ==
    IF c \in Upper THEN Char(LowerCaseLetters, IndexOf(c, UpperCaseLetters)) ELSE c

\* s.toLowerCase()
RECURSIVE ToLowerCase(_)
ToLowerCase(s) ==
    IF s = "" THEN ""
    ELSE CharToLowerCase(Char(s, 1)) \o ToLowerCase(SubSeq(s, 2, Len(s)))

\* `${n}` for a non-negative integer n
RECURSIVE NumberToString(_)
NumberToString(n) ==
    IF n < 10 THEN Char(DecimalDigits, n + 1)
    ELSE NumberToString(n \div 10) \o Char(DecimalDigits, (n % 10) + 1)

\* parseInt(s, 10) and Number(s), for a non-empty string of digits
RECURSIVE ParseInt(_)
ParseInt(s) ==
    IF Len(s) = 1 THEN IndexOf(s, DecimalDigits) - 1
    ELSE 10 * ParseInt(SubSeq(s, 1, Len(s) - 1))
         + IndexOf(Char(s, Len(s)), DecimalDigits) - 1

\* position of the first character of s that is in seps, 0 when there is none
FirstOf(s, seps) ==
    IF \E i \in 1..Len(s) : Char(s, i) \in seps
    THEN Min({ i \in 1..Len(s) : Char(s, i) \in seps })
    ELSE 0

\* s.split(sep), for a separator that is one character out of seps
RECURSIVE Split(_, _)
Split(s, seps) ==
    IF FirstOf(s, seps) = 0 THEN <<s>>
    ELSE <<SubSeq(s, 1, FirstOf(s, seps) - 1)>>
         \o Split(SubSeq(s, FirstOf(s, seps) + 1, Len(s)), seps)

\* /^[0-9]+$/
IsNumeric(s) == Len(s) > 0 /\ AllIn(s, Digit)

\* a value JavaScript takes for true: a string that is there and not empty
Truthy(x) == x # undefined /\ x.value # ""

\* Math.sign
MathSign(n) == IF n > 0 THEN 1 ELSE IF n < 0 THEN -1 ELSE 0

-----------------------------------------------------------------------------
(* semver.ts: class SemanticVersion *)

\* 0|[1-9]\d*
NumericIdentifier(s) ==
    s = "0" \/ (Len(s) > 0 /\ AllIn(s, Digit) /\ Char(s, 1) # "0")

\* 0|[1-9]\d*|\d*[a-zA-Z-][0-9a-zA-Z-]*
PrereleaseIdentifier(s) ==
    \/ NumericIdentifier(s)
    \/ /\ AllIn(s, IdentifierChars)
       /\ \E i \in 1..Len(s) : Char(s, i) \notin Digit

\* [0-9a-zA-Z-]+
BuildIdentifier(s) == Len(s) > 0 /\ AllIn(s, IdentifierChars)

\* mutant: a prerelease pattern that matches every string
prerelease_re_any(s) == TRUE

\* s.match(prerelease_re): identifiers joined by dots, from ^ to $
prerelease_re(s) ==
    \A i \in DOMAIN Split(s, {"."}) : PrereleaseIdentifier(Split(s, {"."})[i])

\* s.match(buildmetadata_re)
buildmetadata_re(s) ==
    \A i \in DOMAIN Split(s, {"."}) : BuildIdentifier(Split(s, {"."})[i])

\* an exception thrown instead of a value returned
Thrown(message) == [error |-> message]
IsThrown(x) == DOMAIN x = {"error"}

\* new SemanticVersion(major, minor, patch, prerelease, buildmetadata):
\* the instance, or the error the constructor throws
SemanticVersion(major, minor, patch, prerelease, buildmetadata) ==
    IF Truthy(prerelease) /\ ~prerelease_re(prerelease.value)
    THEN Thrown("Invalid prerelease format: " \o prerelease.value)
    ELSE IF Truthy(buildmetadata) /\ ~buildmetadata_re(buildmetadata.value)
    THEN Thrown("Invalid build metadata format: " \o buildmetadata.value)
    ELSE [major |-> major, minor |-> minor, patch |-> patch,
          prerelease |-> prerelease, buildmetadata |-> buildmetadata]

IsVersion(x) ==
    DOMAIN x = {"major", "minor", "patch", "prerelease", "buildmetadata"}

\* mutant: toString without the prerelease
toStringWithoutPrerelease(self) ==
    NumberToString(self.major) \o "." \o NumberToString(self.minor) \o "."
    \o NumberToString(self.patch)
    \o (IF Truthy(self.buildmetadata) THEN "+" \o self.buildmetadata.value ELSE "")

\* toString()
toString(self) ==
    NumberToString(self.major) \o "." \o NumberToString(self.minor) \o "."
    \o NumberToString(self.patch)
    \o (IF Truthy(self.prerelease) THEN "-" \o self.prerelease.value ELSE "")
    \o (IF Truthy(self.buildmetadata) THEN "+" \o self.buildmetadata.value ELSE "")

\* as_tag()
as_tag(self) == "v" \o toString(self)

\* last index of the run of digits of s that starts at i (i - 1 if none)
RECURSIVE DigitRunEnd(_, _)
DigitRunEnd(s, i) ==
    IF i <= Len(s) /\ Char(s, i) \in Digit THEN DigitRunEnd(s, i + 1) ELSE i - 1

\* s.replace(/-/g, '.')
RECURSIVE ReplaceHyphens(_)
ReplaceHyphens(s) ==
    IF s = "" THEN ""
    ELSE (IF Char(s, 1) = "-" THEN "." ELSE Char(s, 1))
         \o ReplaceHyphens(SubSeq(s, 2, Len(s)))

\* end of the run of letters of s that starts at i (i - 1 if there is none)
RECURSIVE LetterRunEnd(_, _)
LetterRunEnd(s, i) ==
    IF i <= Len(s) /\ Char(s, i) \in Lower \cup Upper
    THEN LetterRunEnd(s, i + 1) ELSE i - 1

\* the object literal mapping of as_pep_440
Pep440Mapping == [alpha |-> "a", beta |-> "b", rc |-> "rc"]

\* String(f) for the function Object.prototype holds under key
PrototypeText(key) ==
    "function " \o (IF key = "constructor" THEN "Object" ELSE key)
    \o "() { [native code] }"

\* mutant: the mapping without the key rc
MappedWithoutRc(p1) ==
    IF p1 \in DOMAIN Pep440Mapping \ {"rc"} THEN Pep440Mapping[p1]
    ELSE IF p1 \in DOMAIN ObjectPrototype THEN PrototypeText(p1)
    ELSE p1

\* mapping[p1] ? mapping[p1] : p1, where mapping[p1] also finds what the
\* object literal inherits from Object.prototype
Mapped(p1) ==
    IF p1 \in DOMAIN Pep440Mapping THEN Pep440Mapping[p1]
    ELSE IF p1 \in DOMAIN ObjectPrototype THEN PrototypeText(p1)
    ELSE p1

\* s.replace(/([a-zA-Z]+)(\d*)/g, (_, p1, p2) => ...), from position i on
RECURSIVE ReplaceLetterRuns(_, _)
ReplaceLetterRuns(s, i) ==
    IF i > Len(s) THEN ""
    ELSE IF Char(s, i) \in Lower \cup Upper
    THEN Mapped(SubSeq(s, i, LetterRunEnd(s, i)))
         \o SubSeq(s, LetterRunEnd(s, i) + 1,
                   DigitRunEnd(s, LetterRunEnd(s, i) + 1))
         \o ReplaceLetterRuns(s, DigitRunEnd(s, LetterRunEnd(s, i) + 1) + 1)
    ELSE Char(s, i) \o ReplaceLetterRuns(s, i + 1)

\* as_pep_440()
as_pep_440(self) ==
    NumberToString(self.major) \o "." \o NumberToString(self.minor) \o "."
    \o NumberToString(self.patch)
    \o (IF Truthy(self.prerelease)
        THEN ReplaceLetterRuns(ReplaceHyphens(self.prerelease.value), 1)
        ELSE "")

\* mutant: bump that keeps the receiver's prerelease and build metadata
bumpInheriting(self, imp, prerelease, buildmetadata) ==
    CASE imp = MAJOR ->
           SemanticVersion(self.major + 1, 0, 0,
                           self.prerelease, self.buildmetadata)
      [] imp = MINOR ->
           SemanticVersion(self.major, self.minor + 1, 0,
                           self.prerelease, self.buildmetadata)
      [] imp = PATCH ->
           SemanticVersion(self.major, self.minor, self.patch + 1,
                           self.prerelease, self.buildmetadata)
      [] OTHER ->
           SemanticVersion(self.major, self.minor, self.patch,
                           self.prerelease, self.buildmetadata)

\* mutant: bump that resets nothing
bumpWithoutReset(self, imp, prerelease, buildmetadata) ==
    CASE imp = MAJOR ->
           SemanticVersion(self.major + 1, self.minor, self.patch,
                           prerelease, buildmetadata)
      [] imp = MINOR ->
           SemanticVersion(self.major, self.minor + 1, self.patch,
                           prerelease, buildmetadata)
      [] imp = PATCH ->
           SemanticVersion(self.major, self.minor, self.patch + 1,
                           prerelease, buildmetadata)
      [] OTHER ->
           SemanticVersion(self.major, self.minor, self.patch,
                           prerelease, buildmetadata)

\* mutant: bump without the case of PATCH, which falls to the default
bumpWithoutPatch(self, imp, prerelease, buildmetadata) ==
    CASE imp = MAJOR ->
           SemanticVersion(self.major + 1, 0, 0, prerelease, buildmetadata)
      [] imp = MINOR ->
           SemanticVersion(self.major, self.minor + 1, 0,
                           prerelease, buildmetadata)
      [] OTHER ->
           SemanticVersion(self.major, self.minor, self.patch,
                           prerelease, buildmetadata)

\* bump(impact, prerelease, buildmetadata)
bump(self, imp, prerelease, buildmetadata) ==
    CASE imp = MAJOR ->
           SemanticVersion(self.major + 1, 0, 0, prerelease, buildmetadata)
      [] imp = MINOR ->
           SemanticVersion(self.major, self.minor + 1, 0,
                           prerelease, buildmetadata)
      [] imp = PATCH ->
           SemanticVersion(self.major, self.minor, self.patch + 1,
                           prerelease, buildmetadata)
      [] OTHER ->
           SemanticVersion(self.major, self.minor, self.patch,
                           prerelease, buildmetadata)

\* version.match(semver): the named groups, or NoMatch.  Each numeric field
\* is the whole run of digits up to the dot (or to the end of the triple);
\* the prerelease runs up to the first "+", which it cannot contain, and the
\* build metadata from there to the end of the string.
SemverMatch(s) ==
    LET start == IF MatchesAt(s, 1, "v") THEN 2 ELSE 1
        e1 == DigitRunEnd(s, start)
        e2 == DigitRunEnd(s, e1 + 2)
        e3 == DigitRunEnd(s, e2 + 2)
        rest == SubSeq(s, e3 + 1, Len(s))
        plus == FirstOf(rest, {"+"})
        pre == IF MatchesAt(rest, 1, "-")
               THEN Some(SubSeq(rest, 2, IF plus = 0 THEN Len(rest) ELSE plus - 1))
               ELSE undefined
        build == IF plus # 0 THEN Some(SubSeq(rest, plus + 1, Len(rest)))
                 ELSE undefined
    IN  IF /\ NumericIdentifier(SubSeq(s, start, e1))
           /\ MatchesAt(s, e1 + 1, ".")
           /\ NumericIdentifier(SubSeq(s, e1 + 2, e2))
           /\ MatchesAt(s, e2 + 1, ".")
           /\ NumericIdentifier(SubSeq(s, e2 + 2, e3))
           /\ (rest = "" \/ MatchesAt(rest, 1, "-") \/ MatchesAt(rest, 1, "+"))
           /\ (pre # undefined => prerelease_re(pre.value))
           /\ (build # undefined => buildmetadata_re(build.value))
        THEN [matched |-> TRUE,
              major |-> SubSeq(s, start, e1),
              minor |-> SubSeq(s, e1 + 2, e2),
              patch |-> SubSeq(s, e2 + 2, e3),
              prerelease |-> pre,
              buildmetadata |-> build]
        ELSE NoMatch

\* mutant: parse that reads the numeric fields with leading zeros as well
parseLenient(version) ==
    LET start == IF MatchesAt(version, 1, "v") THEN 2 ELSE 1
        e1 == DigitRunEnd(version, start)
        e2 == DigitRunEnd(version, e1 + 2)
        e3 == DigitRunEnd(version, e2 + 2)
    IN  IF /\ e1 >= start /\ MatchesAt(version, e1 + 1, ".")
           /\ e2 >= e1 + 2 /\ MatchesAt(version, e2 + 1, ".")
           /\ e3 >= e2 + 2 /\ e3 = Len(version)
        THEN SemanticVersion(ParseInt(SubSeq(version, start, e1)),
                             ParseInt(SubSeq(version, e1 + 2, e2)),
                             ParseInt(SubSeq(version, e2 + 2, e3)),
                             undefined, undefined)
        ELSE undefined

\* mutant: parse that drops the prerelease
parseWithoutPrerelease(version) ==
    IF SemverMatch(version) = NoMatch THEN undefined
    ELSE SemanticVersion(ParseInt(SemverMatch(version).major),
                         ParseInt(SemverMatch(version).minor),
                         ParseInt(SemverMatch(version).patch),
                         undefined, undefined)

\* what parse makes of the outcome of version.match(semver)
VersionOfMatch(match) ==
    IF match = NoMatch THEN undefined
    ELSE [ SemanticVersion(ParseInt(match.major), ParseInt(match.minor),
                           ParseInt(match.patch), undefined, undefined)
           EXCEPT !.prerelease =
                      IF Truthy(match.prerelease) THEN match.prerelease ELSE @,
                  !.buildmetadata =
                      IF Truthy(match.buildmetadata) THEN match.buildmetadata
                      ELSE @ ]

\* SemanticVersion.parse(version)
parse(version) ==
    CHOOSE v \in { VersionOfMatch(match) : match \in {SemverMatch(version)} } :
        TRUE

-----------------------------------------------------------------------------
(* semver.ts: compare and comparePrerelease *)

\* The orders String.prototype.localeCompare follows on the characters of
\* identifiers: the collation of ICU (punctuation, digits, then letters with
\* the case told apart only when everything else is equal, lower case
\* first), or the order of the code units in a runtime built without ICU.
Collations == {"icu", "code units"}

CodeUnitOrder ==
    "-0123456789ABCDEFGHIJKLMNOPQRSTUVWXYZabcdefghijklmnopqrstuvwxyz"
PrimaryOrder == "-0123456789abcdefghijklmnopqrstuvwxyz"

\* comparison of a and b by their code units, as the operators < and > do
RECURSIVE CodeUnitCompare(_, _)
CodeUnitCompare(a, b) ==
    IF a = "" /\ b = "" THEN 0
    ELSE IF a = "" THEN -1
    ELSE IF b = "" THEN 1
    ELSE IF Char(a, 1) # Char(b, 1)
    THEN MathSign(IndexOf(Char(a, 1), CodeUnitOrder)
                  - IndexOf(Char(b, 1), CodeUnitOrder))
    ELSE CodeUnitCompare(SubSeq(a, 2, Len(a)), SubSeq(b, 2, Len(b)))

\* first level of the collation: the letters and digits, whatever the case
RECURSIVE PrimaryCompare(_, _)
PrimaryCompare(a, b) ==
    IF a = "" /\ b = "" THEN 0
    ELSE IF a = "" THEN -1
    ELSE IF b = "" THEN 1
    ELSE IF CharToLowerCase(Char(a, 1)) # CharToLowerCase(Char(b, 1))
    THEN MathSign(IndexOf(CharToLowerCase(Char(a, 1)), PrimaryOrder)
                  - IndexOf(CharToLowerCase(Char(b, 1)), PrimaryOrder))
    ELSE PrimaryCompare(SubSeq(a, 2, Len(a)), SubSeq(b, 2, Len(b)))

\* third level, for strings equal on the first: the first difference of case
RECURSIVE TertiaryCompare(_, _)
TertiaryCompare(a, b) ==
    IF a = "" \/ b = "" THEN 0
    ELSE IF Char(a, 1) = Char(b, 1)
    THEN TertiaryCompare(SubSeq(a, 2, Len(a)), SubSeq(b, 2, Len(b)))
    ELSE IF Char(a, 1) \in Lower THEN -1 ELSE 1

\* mutant: localeCompare that tells no two strings apart
LocaleCompareAllEqual(a, b) == 0

\* a.localeCompare(b)
LocaleCompare(a, b) ==
    IF collation = "icu"
    THEN IF PrimaryCompare(a, b) # 0 THEN PrimaryCompare(a, b)
         ELSE TertiaryCompare(a, b)
    ELSE CodeUnitCompare(a, b)

\* the loop of comparePrerelease, from index i on (i counts from 1)
RECURSIVE ComparePrereleaseParts(_, _, _)
ComparePrereleaseParts(aParts, bParts, i) ==
    IF i > Max({Len(aParts), Len(bParts)}) THEN 0
    ELSE IF i > Len(aParts) THEN -1
    ELSE IF i > Len(bParts) THEN 1
    ELSE IF IsNumeric(aParts[i]) /\ IsNumeric(bParts[i])
    THEN IF ParseInt(aParts[i]) - ParseInt(bParts[i]) # 0
         THEN MathSign(ParseInt(aParts[i]) - ParseInt(bParts[i]))
         ELSE ComparePrereleaseParts(aParts, bParts, i + 1)
    ELSE IF IsNumeric(aParts[i]) # IsNumeric(bParts[i])
    THEN IF IsNumeric(aParts[i]) THEN -1 ELSE 1
    ELSE IF LocaleCompare(aParts[i], bParts[i]) # 0
         THEN MathSign(LocaleCompare(aParts[i], bParts[i]))
         ELSE ComparePrereleaseParts(aParts, bParts, i + 1)

\* mutant: comparePrerelease that puts a release below its prereleases
comparePrereleaseReleaseFirst(a, b) ==
    IF ~Truthy(a) /\ ~Truthy(b) THEN 0
    ELSE IF ~Truthy(a) THEN -1
    ELSE IF ~Truthy(b) THEN 1
    ELSE ComparePrereleaseParts(Split(a.value, {"."}), Split(b.value, {"."}), 1)

\* SemanticVersion.comparePrerelease(a, b)
comparePrerelease(a, b) ==
    IF ~Truthy(a) /\ ~Truthy(b) THEN 0
    ELSE IF ~Truthy(a) THEN 1
    ELSE IF ~Truthy(b) THEN -1
    ELSE ComparePrereleaseParts(Split(a.value, {"."}), Split(b.value, {"."}), 1)

\* mutant: compare that reads the numeric triple only
compareTriple(a, b) ==
    IF a.major - b.major # 0 THEN MathSign(a.major - b.major)
    ELSE IF a.minor - b.minor # 0 THEN MathSign(a.minor - b.minor)
    ELSE MathSign(a.patch - b.patch)

\* mutant: compare that reads the prerelease only
comparePrereleaseOnly(a, b) == comparePrerelease(a.prerelease, b.prerelease)

\* SemanticVersion.compare(a, b)
compare(a, b) ==
    IF a.major - b.major # 0 THEN MathSign(a.major - b.major)
    ELSE IF a.minor - b.minor # 0 THEN MathSign(a.minor - b.minor)
    ELSE IF a.patch - b.patch # 0 THEN MathSign(a.patch - b.patch)
    ELSE comparePrerelease(a.prerelease, b.prerelease)

-----------------------------------------------------------------------------
(* semver.ts: nextRcIndex *)

\* part.match(/^rc([0-9]+)$/i)
IsInlineRc(part) ==
    /\ Len(part) >= 3
    /\ ToLowerCase(SubSeq(part, 1, 2)) = "rc"
    /\ IsNumeric(SubSeq(part, 3, Len(part)))

\* /^rc$/i.test(part)
IsBareRc(part) == ToLowerCase(part) = "rc"

\* mutant: a bare rc counts as 0 whatever follows it
RcOfPartBareIsZero(rcParts, i, maxRc) ==
    IF IsInlineRc(rcParts[i])
    THEN Max({maxRc, ParseInt(SubSeq(rcParts[i], 3, Len(rcParts[i])))})
    ELSE IF IsBareRc(rcParts[i])
    THEN IF i + 1 > Len(rcParts) THEN Max({maxRc, 0})
         ELSE IF IsNumeric(rcParts[i + 1]) THEN Max({maxRc, ParseInt(rcParts[i + 1])})
         ELSE Max({maxRc, 0})
    ELSE maxRc

\* maxRc after the body of the inner loop for rcParts[i] (i counts from 1)
RcOfPart(rcParts, i, maxRc) ==
    IF IsInlineRc(rcParts[i])
    THEN Max({maxRc, ParseInt(SubSeq(rcParts[i], 3, Len(rcParts[i])))})
    ELSE IF IsBareRc(rcParts[i])
    THEN IF i + 1 > Len(rcParts) THEN Max({maxRc, 0})
         ELSE IF IsNumeric(rcParts[i + 1]) THEN Max({maxRc, ParseInt(rcParts[i + 1])})
         ELSE maxRc
    ELSE maxRc

\* maxRc after the inner loop from rcParts[i] on
RECURSIVE RcOfParts(_, _, _)
RcOfParts(rcParts, i, maxRc) ==
    IF i > Len(rcParts) THEN maxRc
    ELSE CHOOSE r \in { RcOfParts(rcParts, i + 1, m) :
                          m \in {RcOfPart(rcParts, i, maxRc)} } : TRUE

\* maxRc after the body of the outer loop, for the outcome of parse(name)
RcOfParsed(base, parsed_name, maxRc) ==
    IF parsed_name = undefined THEN maxRc
    ELSE IF /\ parsed_name.major = base.major
            /\ parsed_name.minor = base.minor
            /\ parsed_name.patch = base.patch
            /\ Truthy(parsed_name.prerelease)
    THEN RcOfParts(Split(parsed_name.prerelease.value, {".", "-", "_"}), 1, maxRc)
    ELSE maxRc

\* maxRc after the body of the outer loop for one tag name
RcOfTag(base, name, maxRc) ==
    CHOOSE r \in { RcOfParsed(base, parsed_name, maxRc) :
                     parsed_name \in {parse(name)} } : TRUE

\* maxRc after the outer loop from tagNames[k] on
RECURSIVE RcOfTags(_, _, _, _)
RcOfTags(base, tagNames, k, maxRc) ==
    IF k > Len(tagNames) THEN maxRc
    ELSE CHOOSE r \in { RcOfTags(base, tagNames, k + 1, m) :
                          m \in {RcOfTag(base, tagNames[k], maxRc)} } : TRUE

\* mutant: nextRcIndex that reads the last tag name only
nextRcIndexOfLastTag(base, tagNames) ==
    IF tagNames = <<>> THEN 0
    ELSE RcOfTags(base, tagNames, Len(tagNames), -1) + 1

\* SemanticVersion.nextRcIndex(base, tagNames)
nextRcIndex(base, tagNames) == RcOfTags(base, tagNames, 1, -1) + 1

-----------------------------------------------------------------------------
(* main.ts: handle_release_candidates *)

\* the two revisions of main.ts
Revisions == {"part_003", "part_004"}

\* pr.labels?.some((label) => label.name.toLowerCase() === 'release-candidate')
IsPrerelease(labels) ==
    /\ labels # undefined
    /\ \E i \in DOMAIN labels.value :
          ToLowerCase(labels.value[i].name) = "release-candidate"

\* names.map(parse).filter(version !== undefined).map(toString)
RECURSIVE ParsedNames(_)
ParsedNames(names) ==
    IF names = <<>> THEN <<>>
    ELSE IF parse(Head(names)) = undefined THEN ParsedNames(Tail(names))
    ELSE <<toString(parse(Head(names)))>> \o ParsedNames(Tail(names))

\* the names nextRcIndex is given for the tags the lookup found: in part_003
\* the tags are parsed, the failures dropped and the versions rendered
\* again; in part_004 the names go on as they are
RcNames(names) == IF revision = "part_003" THEN ParsedNames(names) ELSE names

\* getReleaseCandidatesSinceLatestRelease(token, baseline): the tags of the
\* local repository if there are any, else those of the GitHub API if there
\* is a token; nothing when a lookup throws
getReleaseCandidatesSinceLatestRelease(tok, baseline) ==
    IF IsThrown(local_rc) THEN <<>>
    ELSE IF Len(local_rc.value) > 0 THEN local_rc.value
    ELSE IF ~Truthy(tok) THEN <<>>
    ELSE IF IsThrown(github_rc) THEN <<>>
    ELSE github_rc.value

\* the prerelease of a release candidate: rc and the next index for the
\* bumped base version
NextReleaseCandidate(tok, bumped_base) ==
    Some("rc" \o NumberToString(
        nextRcIndex(bumped_base,
            RcNames(getReleaseCandidatesSinceLatestRelease(tok, bumped_base)))))

\* mutant: handle_release_candidates without the check of pr.merged
handle_release_candidates_merged_too(tok, pull, imp, last_release_version) ==
    IF revision = "part_004" /\ tok = undefined THEN undefined
    ELSE IF IsPrerelease(pull.labels)
    THEN NextReleaseCandidate(tok, bump(last_release_version, imp,
                                        undefined, undefined))
    ELSE undefined

\* handle_release_candidates(token, pr, impact, last_release_version)
handle_release_candidates(tok, pull, imp, last_release_version) ==
    IF revision = "part_004" /\ tok = undefined THEN undefined
    ELSE IF pull.merged THEN undefined
    ELSE IF IsPrerelease(pull.labels)
    THEN NextReleaseCandidate(tok, bump(last_release_version, imp,
                                        undefined, undefined))
    ELSE undefined

-----------------------------------------------------------------------------
(* SemanticVersion.parse: its inputs and its specification *)

VersionPrefixes == {"", "v", "V", "vv"}
NumericFields == {"0", "1", "10", "01"}
VersionSuffixes ==
    {"", "-rc1", "-rc.1", "-0", "-0a.1", "-alpha-beta.x-1",
     "+build", "+001", "+b-rc1", "-rc1+build.5",
     "-", "-01", "-1.02", "-a..b", "-a.", "-a_b", "-rc1\n",
     "+", "+a+b", "+a..b", "-rc1+", " ", "\n", "rc1"}
OddVersions ==
    {"not-a-version", "", "v", "1.2", "1.2.3.4", "1,2,3", " 1.2.3", "a.b.c",
     ".1.2", "1..2", "1.2.", "-1.2.3"}

VersionPieces ==
    { <<p, a, ".", b, ".", c, x>> :
        p \in VersionPrefixes, a \in NumericFields, b \in NumericFields,
        c \in NumericFields, x \in VersionSuffixes }
    \cup { <<w>> : w \in OddVersions }

RECURSIVE Concat(_)
Concat(ps) == IF ps = <<>> THEN "" ELSE Head(ps) \o Concat(Tail(ps))

CallParse ==
    /\ parsed_version = NotCalled
    /\ parsed_version' = parse(parse_arg)
    /\ UNCHANGED <<parse_arg, version_parts>>
    /\ UNCHANGED <<conventionalVars, resolverVars, restVars,
                   versionVars, compareVars, rcVars>>

InitParse ==
    /\ version_parts \in VersionPieces
    /\ parse_arg = Concat(version_parts)
    /\ parsed_version = NotCalled
    /\ IdleConventional /\ IdleVersion /\ IdleCompare /\ IdleRc /\ IdleResolver /\ IdleRest
NextParse == CallParse
SpecParse == InitParse /\ [][NextParse]_vars

-----------------------------------------------------------------------------
(* Properties of SemanticVersion.parse, checked under SpecParse *)

\* the numeric fields of the grammar among NumericFields, with their values
FieldValue == ("0" :> 0) @@ ("1" :> 1) @@ ("10" :> 10)

\* the suffixes of the grammar among VersionSuffixes, with their fields
SuffixFields ==
    ("" :> [prerelease |-> undefined, buildmetadata |-> undefined])
    @@ ("-rc1" :> [prerelease |-> Some("rc1"), buildmetadata |-> undefined])
    @@ ("-rc.1" :> [prerelease |-> Some("rc.1"), buildmetadata |-> undefined])
    @@ ("-0" :> [prerelease |-> Some("0"), buildmetadata |-> undefined])
    @@ ("-0a.1" :> [prerelease |-> Some("0a.1"), buildmetadata |-> undefined])
    @@ ("-alpha-beta.x-1" :>
            [prerelease |-> Some("alpha-beta.x-1"), buildmetadata |-> undefined])
    @@ ("+build" :> [prerelease |-> undefined, buildmetadata |-> Some("build")])
    @@ ("+001" :> [prerelease |-> undefined, buildmetadata |-> Some("001")])
    @@ ("+b-rc1" :> [prerelease |-> undefined, buildmetadata |-> Some("b-rc1")])
    @@ ("-rc1+build.5" :>
            [prerelease |-> Some("rc1"), buildmetadata |-> Some("build.5")])

\* the pieces spell [v]MAJOR.MINOR.PATCH[-PRERELEASE][+BUILDMETADATA]
WellFormed(ps) ==
    /\ Len(ps) = 7
    /\ ps[1] \in {"", "v"}
    /\ ps[2] \in DOMAIN FieldValue
    /\ ps[4] \in DOMAIN FieldValue
    /\ ps[6] \in DOMAIN FieldValue
    /\ ps[7] \in DOMAIN SuffixFields

\* the version well-formed pieces spell
Spelled(ps) ==
    [major |-> FieldValue[ps[2]], minor |-> FieldValue[ps[4]],
     patch |-> FieldValue[ps[6]],
     prerelease |-> SuffixFields[ps[7]].prerelease,
     buildmetadata |-> SuffixFields[ps[7]].buildmetadata]

\* C12: parse returns a version, carrying the parsed fields, exactly for the
\* strings of the form [v]MAJOR.MINOR.PATCH[-PRERELEASE][+BUILDMETADATA]
\* without leading zeros in the numeric fields; for every other string it
\* returns undefined, and it never throws.
C12_ParseExactlyTheGrammar ==
    parsed_version # NotCalled =>
        /\ ~IsThrown(parsed_version)
        /\ parsed_version =
              IF WellFormed(version_parts) THEN Spelled(version_parts)
              ELSE undefined

\* C12 witness: a tag with prerelease and build metadata has been parsed
C12_Witness ==
    /\ parse_arg = "v1.10.0-rc1+build.5"
    /\ parsed_version = [major |-> 1, minor |-> 10, patch |-> 0,
                         prerelease |-> Some("rc1"),
                         buildmetadata |-> Some("build.5")]

-----------------------------------------------------------------------------
(* SemanticVersion: construction, rendering and bump *)

\* numbers on both sides of the step from one digit to two
Numbers == {0, MaxNumber - 1, MaxNumber}

PrereleaseArgs ==
    {undefined, Some(""), Some("rc1"), Some("rc.1"), Some("alpha-1.0"),
     Some("*bad*"), Some("01"), Some("a..b"), Some("rc_1")}
BuildmetadataArgs ==
    {undefined, Some(""), Some("build.5"), Some("001"),
     Some("bad meta"), Some("a+b")}
BumpPrereleaseArgs == {undefined, Some(""), Some("rc0"), Some("*bad*")}
BumpBuildmetadataArgs == {undefined, Some(""), Some("bad meta")}

ConstructorArgs ==
    [major : Numbers, minor : Numbers, patch : Numbers,
     prerelease : PrereleaseArgs, buildmetadata : BuildmetadataArgs]

CallConstructor ==
    /\ instance = NotCalled
    /\ instance' = SemanticVersion(ctor_args.major, ctor_args.minor,
                                   ctor_args.patch, ctor_args.prerelease,
                                   ctor_args.buildmetadata)
    /\ UNCHANGED <<ctor_args, text, reparsed, bump_args, bumped>>
    /\ UNCHANGED <<conventionalVars, resolverVars, restVars,
                   parseVars, compareVars, rcVars>>

\* one method is followed per instance: toString or as_tag and the parse of
\* what they return, or bump
CallToString ==
    /\ IsVersion(instance) /\ text = NotCalled /\ bumped = NotCalled
    /\ text' = Some(toString(instance))
    /\ UNCHANGED <<ctor_args, instance, reparsed, bump_args, bumped>>
    /\ UNCHANGED <<conventionalVars, resolverVars, restVars,
                   parseVars, compareVars, rcVars>>

CallAsTag ==
    /\ IsVersion(instance) /\ text = NotCalled /\ bumped = NotCalled
    /\ text' = Some(as_tag(instance))
    /\ UNCHANGED <<ctor_args, instance, reparsed, bump_args, bumped>>
    /\ UNCHANGED <<conventionalVars, resolverVars, restVars,
                   parseVars, compareVars, rcVars>>

CallParseText ==
    /\ text # NotCalled /\ reparsed = NotCalled
    /\ reparsed' = parse(text.value)
    /\ UNCHANGED <<ctor_args, instance, text, bump_args, bumped>>
    /\ UNCHANGED <<conventionalVars, resolverVars, restVars,
                   parseVars, compareVars, rcVars>>

CallBump ==
    /\ IsVersion(instance) /\ text = NotCalled /\ bumped = NotCalled
    /\ \E imp \in Impact, prerelease \in BumpPrereleaseArgs,
          buildmetadata \in BumpBuildmetadataArgs :
          /\ bump_args' = [impact |-> imp, prerelease |-> prerelease,
                           buildmetadata |-> buildmetadata]
          /\ bumped' = bump(instance, imp, prerelease, buildmetadata)
    /\ UNCHANGED <<ctor_args, instance, text, reparsed>>
    /\ UNCHANGED <<conventionalVars, resolverVars, restVars,
                   parseVars, compareVars, rcVars>>

InitVersion ==
    /\ ctor_args \in ConstructorArgs
    /\ instance = NotCalled
    /\ text = NotCalled /\ reparsed = NotCalled
    /\ bump_args = NotCalled /\ bumped = NotCalled
    /\ collation \in Collations /\ operands = NotCalled /\ order = NotCalled
    /\ IdleConventional /\ IdleParse /\ IdleRc /\ IdleResolver /\ IdleRest
NextVersion ==
    \/ CallConstructor
    \/ CallToString
    \/ CallAsTag
    \/ CallParseText
    \/ CallBump
SpecVersion == InitVersion /\ [][NextVersion]_vars

-----------------------------------------------------------------------------
(* Properties of the constructor, toString, as_tag and bump, checked under
   SpecVersion *)

\* the strings of the semver grammar among the constructor's arguments
GrammaticalPrereleases == {"rc1", "rc.1", "alpha-1.0", "rc0"}
GrammaticalBuildmetadata == {"build.5", "001"}

\* x is absent or a string of the grammar
AbsentOrIn(x, grammatical) == x = undefined \/ x.value \in grammatical

\* v is a valid version: absent or grammatical prerelease and build metadata
ValidVersion(v) ==
    /\ IsVersion(v)
    /\ AbsentOrIn(v.prerelease, GrammaticalPrereleases)
    /\ AbsentOrIn(v.buildmetadata, GrammaticalBuildmetadata)

\* C13: for every valid version v, parsing what toString() or as_tag()
\* returns succeeds and gives v's major, minor, patch and prerelease again,
\* a version that compares equal to v.
C13_RoundTrip ==
    (ValidVersion(instance) /\ reparsed # NotCalled) =>
        /\ IsVersion(reparsed)
        /\ reparsed.major = instance.major
        /\ reparsed.minor = instance.minor
        /\ reparsed.patch = instance.patch
        /\ reparsed.prerelease = instance.prerelease
        /\ compare(reparsed, instance) = 0
        /\ compare(instance, reparsed) = 0

\* C13 witness: a tag with the largest number, a prerelease and build
\* metadata has been rendered and parsed back
C13_Witness ==
    /\ ValidVersion(instance)
    /\ text = Some("v" \o NumberToString(MaxNumber) \o ".0."
                    \o NumberToString(MaxNumber - 1) \o "-rc.1+build.5")
    /\ IsVersion(reparsed)
    /\ reparsed.prerelease = Some("rc.1")

\* x is a string outside the grammar
Ungrammatical(x, grammatical) == x # undefined /\ x.value \notin grammatical

\* x is a string outside the grammar other than the empty string
Malformed(x, grammatical) == Ungrammatical(x, grammatical) /\ x.value # ""

\* C14 as stated: a string outside the grammar makes the constructor throw,
\* and no instance built by the constructor or by bump holds one.
C14_Original ==
    /\ instance # NotCalled =>
          /\ ( \/ Ungrammatical(ctor_args.prerelease, GrammaticalPrereleases)
               \/ Ungrammatical(ctor_args.buildmetadata, GrammaticalBuildmetadata) )
                => IsThrown(instance)
          /\ IsVersion(instance) => ValidVersion(instance)
    /\ bumped # NotCalled =>
          /\ ( \/ Ungrammatical(bump_args.prerelease, GrammaticalPrereleases)
               \/ Ungrammatical(bump_args.buildmetadata, GrammaticalBuildmetadata) )
                => IsThrown(bumped)
          /\ IsVersion(bumped) => ValidVersion(bumped)

\* v holds, in each of the two fields, nothing, "" or a string of the grammar
EmptyOrValid(v) ==
    /\ IsVersion(v)
    /\ ~Malformed(v.prerelease, GrammaticalPrereleases)
    /\ ~Malformed(v.buildmetadata, GrammaticalBuildmetadata)

\* C14: the constructor, called directly or by bump, throws exactly when the
\* prerelease or the build metadata is a non-empty string outside the
\* grammar; otherwise it returns an instance holding its arguments, each of
\* them absent, empty or grammatical.
C14_NonEmptyStringsValidated ==
    /\ instance # NotCalled =>
          /\ IsThrown(instance) <=>
                \/ Malformed(ctor_args.prerelease, GrammaticalPrereleases)
                \/ Malformed(ctor_args.buildmetadata, GrammaticalBuildmetadata)
          /\ ~IsThrown(instance) =>
                /\ EmptyOrValid(instance)
                /\ instance.prerelease = ctor_args.prerelease
                /\ instance.buildmetadata = ctor_args.buildmetadata
    /\ bumped # NotCalled =>
          /\ IsThrown(bumped) <=>
                \/ Malformed(bump_args.prerelease, GrammaticalPrereleases)
                \/ Malformed(bump_args.buildmetadata, GrammaticalBuildmetadata)
          /\ ~IsThrown(bumped) => EmptyOrValid(bumped)

\* C14 witness: the constructor has thrown on a malformed prerelease
C14_Witness ==
    /\ ctor_args.prerelease = Some("*bad*")
    /\ ctor_args.buildmetadata = Some("")
    /\ IsThrown(instance)

\* the numeric triple the table of bump gives for v and imp
BumpedTriple(v, imp) ==
    IF imp = MAJOR THEN <<v.major + 1, 0, 0>>
    ELSE IF imp = MINOR THEN <<v.major, v.minor + 1, 0>>
    ELSE IF imp = PATCH THEN <<v.major, v.minor, v.patch + 1>>
    ELSE <<v.major, v.minor, v.patch>>

\* C15: bump returns a version with the numeric triple of the table for its
\* impact, and with exactly the prerelease and the build metadata it was
\* given: absent when omitted, never those of the receiver.
C15_BumpTableAndArguments ==
    bumped # NotCalled =>
        /\ ( /\ AbsentOrIn(bump_args.prerelease, GrammaticalPrereleases)
             /\ AbsentOrIn(bump_args.buildmetadata, GrammaticalBuildmetadata) )
              => IsVersion(bumped)
        /\ IsVersion(bumped) =>
              /\ <<bumped.major, bumped.minor, bumped.patch>>
                    = BumpedTriple(instance, bump_args.impact)
              /\ bumped.prerelease = bump_args.prerelease
              /\ bumped.buildmetadata = bump_args.buildmetadata

\* C15 witness: a receiver with prerelease and build metadata has been bumped
\* by MINOR without arguments, up to the largest number
C15_Witness ==
    /\ IsVersion(instance)
    /\ instance.minor = MaxNumber - 1 /\ instance.patch = MaxNumber
    /\ instance.prerelease = Some("rc1")
    /\ instance.buildmetadata = Some("build.5")
    /\ bump_args = [impact |-> MINOR, prerelease |-> undefined,
                    buildmetadata |-> undefined]
    /\ bumped = [major |-> instance.major, minor |-> MaxNumber, patch |-> 0,
                 prerelease |-> undefined, buildmetadata |-> undefined]

\* C16: bump by MAJOR gives a version above the receiver, bump by MINOR does
\* for a receiver without prerelease, and bump by NOIMPACT keeps major, minor
\* and patch.
C16_BumpMonotonic ==
    (bumped # NotCalled /\ IsVersion(bumped)) =>
        /\ bump_args.impact = MAJOR => compare(bumped, instance) > 0
        /\ (bump_args.impact = MINOR /\ ~Truthy(instance.prerelease))
              => compare(bumped, instance) > 0
        /\ bump_args.impact = NOIMPACT =>
              /\ bumped.major = instance.major
              /\ bumped.minor = instance.minor
              /\ bumped.patch = instance.patch

\* C16 witness: a release has been bumped by MAJOR into a release candidate
\* of the next major version, which compares above it
C16_Witness ==
    /\ IsVersion(instance) /\ IsVersion(bumped)
    /\ instance.major = MaxNumber - 1 /\ instance.minor = MaxNumber
    /\ ~Truthy(instance.prerelease)
    /\ bump_args.impact = MAJOR
    /\ bumped.major = MaxNumber /\ bumped.minor = 0
    /\ bumped.prerelease = Some("rc0")
    /\ compare(bumped, instance) = 1

-----------------------------------------------------------------------------
(* SemanticVersion.compare: its inputs and its specification *)

ComparedPrereleases ==
    {undefined, Some("alpha"), Some("alpha.1"), Some("alpha.beta"),
     Some("beta"), Some("Beta"), Some("beta.2"), Some("beta.11"),
     Some("rc.1"), Some("2"), Some("11"), Some("alpha-1")}

\* valid versions: prereleases of 1.0.0, versions that differ in the build
\* metadata only, and versions around 1.0.0
ComparedVersions ==
    { SemanticVersion(1, 0, 0, p, undefined) : p \in ComparedPrereleases }
    \cup { SemanticVersion(1, 0, 0, Some("alpha"), Some("build1")),
           SemanticVersion(1, 0, 0, undefined, Some("build2")) }
    \cup { SemanticVersion(t[1], t[2], t[3], p, undefined) :
             t \in {<<0, 9, 9>>, <<1, 0, 1>>, <<1, 1, 0>>},
             p \in {undefined, Some("alpha")} }

OperandNames == {"a", "b", "c"}

CallCompare ==
    /\ order = NotCalled
    /\ order' = Some([p \in OperandNames \X OperandNames |->
                         compare(operands[p[1]], operands[p[2]])])
    /\ UNCHANGED <<operands, collation>>
    /\ UNCHANGED <<conventionalVars, resolverVars, restVars,
                   parseVars, versionVars, rcVars>>

InitCompare ==
    /\ operands \in [OperandNames -> ComparedVersions]
    /\ collation \in Collations
    /\ order = NotCalled
    /\ IdleConventional /\ IdleParse /\ IdleVersion /\ IdleRc /\ IdleResolver /\ IdleRest
NextCompare == CallCompare
SpecCompare == InitCompare /\ [][NextCompare]_vars

-----------------------------------------------------------------------------
(* Properties of compare and comparePrerelease, checked under SpecCompare *)

Compared(x, y) == order.value[<<x, y>>]

\* x and y have the same major, minor, patch and prerelease
SamePrecedenceFields(x, y) ==
    /\ operands[x].major = operands[y].major
    /\ operands[x].minor = operands[y].minor
    /\ operands[x].patch = operands[y].patch
    /\ operands[x].prerelease = operands[y].prerelease

\* C17: compare is a strict total order on valid versions modulo build
\* metadata: it returns -1, 0 or 1, compare(a, b) = -compare(b, a), it is
\* transitive, and it returns 0 exactly for versions with the same major,
\* minor, patch and prerelease.
C17_StrictTotalOrder ==
    order # NotCalled =>
        \A x \in OperandNames, y \in OperandNames :
            /\ Compared(x, y) \in {-1, 0, 1}
            /\ Compared(x, y) = -Compared(y, x)
            /\ Compared(x, y) = 0 <=> SamePrecedenceFields(x, y)
            /\ \A z \in OperandNames :
                  (Compared(x, y) <= 0 /\ Compared(y, z) <= 0)
                      => Compared(x, z) <= 0

\* C17 witness: three prereleases of one version in a row, the first two
\* apart by case only in their first letter
C17_Witness ==
    /\ order # NotCalled
    /\ operands["a"].prerelease = Some("alpha.beta")
    /\ operands["b"].prerelease = Some("beta")
    /\ operands["c"].prerelease = Some("Beta")
    /\ operands["c"].major = operands["a"].major
    /\ Compared("a", "b") = -1
    /\ Compared("a", "c") = -1
    /\ Compared("b", "c") # 0

\* semver 2.0.0, rule 11.4: precedence of two prerelease identifiers
IdentifierPrecedence(x, y) ==
    IF IsNumeric(x) /\ IsNumeric(y) THEN MathSign(ParseInt(x) - ParseInt(y))
    ELSE IF IsNumeric(x) THEN -1
    ELSE IF IsNumeric(y) THEN 1
    ELSE CodeUnitCompare(x, y)

\* rule 11.4: identifier after identifier, the longer list above its prefix
RECURSIVE IdentifiersPrecedence(_, _)
IdentifiersPrecedence(xs, ys) ==
    IF xs = <<>> /\ ys = <<>> THEN 0
    ELSE IF xs = <<>> THEN -1
    ELSE IF ys = <<>> THEN 1
    ELSE IF IdentifierPrecedence(Head(xs), Head(ys)) # 0
    THEN IdentifierPrecedence(Head(xs), Head(ys))
    ELSE IdentifiersPrecedence(Tail(xs), Tail(ys))

\* rules 11.2 to 11.4: precedence of two versions
SemverPrecedence(a, b) ==
    IF a.major # b.major THEN MathSign(a.major - b.major)
    ELSE IF a.minor # b.minor THEN MathSign(a.minor - b.minor)
    ELSE IF a.patch # b.patch THEN MathSign(a.patch - b.patch)
    ELSE IF a.prerelease = undefined /\ b.prerelease = undefined THEN 0
    ELSE IF a.prerelease = undefined THEN 1
    ELSE IF b.prerelease = undefined THEN -1
    ELSE IdentifiersPrecedence(Split(a.prerelease.value, {"."}),
                               Split(b.prerelease.value, {"."}))

\* C18: compare orders every pair of valid versions as the precedence rules
\* of semver 2.0.0 do: numeric identifiers by their value, alphanumeric ones
\* in ASCII order, numeric below alphanumeric, a list of identifiers above
\* its prefixes, a release above its prereleases.
C18_SemverPrecedence ==
    order # NotCalled =>
        \A x \in OperandNames, y \in OperandNames :
            Compared(x, y) = SemverPrecedence(operands[x], operands[y])

\* where localeCompare follows the code units
C18_WithoutICU == collation = "code units" => C18_SemverPrecedence

\* two prerelease identifiers: numerically when both are all digits, the
\* numeric one lower when one is, else in the order of the locale
IdentifierOrder(x, y) ==
    IF IsNumeric(x) /\ IsNumeric(y) THEN MathSign(ParseInt(x) - ParseInt(y))
    ELSE IF IsNumeric(x) # IsNumeric(y) THEN (IF IsNumeric(x) THEN -1 ELSE 1)
    ELSE MathSign(LocaleCompare(x, y))

\* the first shared position at which two lists of identifiers differ
\* decides; when none does, the shorter list is lower
IdentifiersOrder(xs, ys) ==
    LET differing == { i \in 1..Min({Len(xs), Len(ys)}) :
                          IdentifierOrder(xs[i], ys[i]) # 0 }
    IN  IF differing = {} THEN MathSign(Len(xs) - Len(ys))
        ELSE IdentifierOrder(xs[Min(differing)], ys[Min(differing)])

PrereleaseOrder(a, b) ==
    IF a = undefined /\ b = undefined THEN 0
    ELSE IF a = undefined THEN 1
    ELSE IF b = undefined THEN -1
    ELSE IdentifiersOrder(Split(a.value, {"."}), Split(b.value, {"."}))

\* the prereleases of 1.0.0 in ascending order, 1.0.0 itself last
AscendingPrereleases ==
    <<Some("alpha"), Some("alpha.1"), Some("alpha.beta"), Some("beta"),
      Some("beta.2"), Some("beta.11"), Some("rc.1"), undefined>>

\* the position of the operand among them, 0 when it is not one of them
Position(x) ==
    IF /\ <<operands[x].major, operands[x].minor, operands[x].patch>>
             = <<1, 0, 0>>
       /\ \E i \in DOMAIN AscendingPrereleases :
             AscendingPrereleases[i] = operands[x].prerelease
    THEN CHOOSE i \in DOMAIN AscendingPrereleases :
             AscendingPrereleases[i] = operands[x].prerelease
    ELSE 0

-----------------------------------------------------------------------------
(* SemanticVersion.nextRcIndex: its inputs and its specification *)

RcTagNames ==
    {"v1.2.3-rc0", "v1.2.3-rc2", "1.2.3-rc.1", "v1.2.3-RC-3", "v1.2.3-rc",
     "v1.2.3", "v1.2.3-rcX", "v1.2.3-rc.beta", "v1.2.3-rc_4",
     "v1.2.3-rc.1.rc10+build", "v2.0.0-rc5", "not-a-tag"}

RcBases ==
    { SemanticVersion(1, 2, 3, undefined, undefined),
      SemanticVersion(2, 0, 0, Some("rc0"), undefined) }

CallNextRcIndex ==
    /\ rc_index = NotCalled
    /\ rc_index' = Some(nextRcIndex(rc_base, rc_tags))
    /\ UNCHANGED <<rc_base, rc_tags>>
    /\ UNCHANGED <<conventionalVars, resolverVars, restVars,
                   parseVars, versionVars, compareVars>>

InitRc ==
    /\ rc_base \in RcBases
    /\ rc_tags \in UNION { [1..n -> RcTagNames] : n \in 0..MaxTags }
    /\ rc_index = NotCalled
    /\ IdleConventional /\ IdleParse /\ IdleVersion /\ IdleCompare /\ IdleResolver /\ IdleRest
NextRc == CallNextRcIndex
SpecRc == InitRc /\ [][NextRc]_vars

-----------------------------------------------------------------------------
(* Properties of nextRcIndex, checked under SpecRc *)

\* what each tag name is: the triple of the version it spells (none when it
\* does not parse or carries no prerelease) and the rc indices it shows
RcTags ==
    ("v1.2.3-rc0" :> [triple |-> <<1, 2, 3>>, accepted |-> {0}])
    @@ ("v1.2.3-rc2" :> [triple |-> <<1, 2, 3>>, accepted |-> {2}])
    @@ ("1.2.3-rc.1" :> [triple |-> <<1, 2, 3>>, accepted |-> {1}])
    @@ ("v1.2.3-RC-3" :> [triple |-> <<1, 2, 3>>, accepted |-> {3}])
    @@ ("v1.2.3-rc" :> [triple |-> <<1, 2, 3>>, accepted |-> {0}])
    @@ ("v1.2.3" :> [triple |-> <<>>, accepted |-> {}])
    @@ ("v1.2.3-rcX" :> [triple |-> <<1, 2, 3>>, accepted |-> {}])
    @@ ("v1.2.3-rc.beta" :> [triple |-> <<1, 2, 3>>, accepted |-> {}])
    @@ ("v1.2.3-rc_4" :> [triple |-> <<>>, accepted |-> {}])
    @@ ("v1.2.3-rc.1.rc10+build" :> [triple |-> <<1, 2, 3>>, accepted |-> {1, 10}])
    @@ ("v2.0.0-rc5" :> [triple |-> <<2, 0, 0>>, accepted |-> {5}])
    @@ ("not-a-tag" :> [triple |-> <<>>, accepted |-> {}])

\* the tag name parses, carries a prerelease and has the triple of v
OfBase(name, v) == RcTags[name].triple = <<v.major, v.minor, v.patch>>

\* the rc indices accepted from the tag names of v
AcceptedRcIndices(names, v) ==
    UNION { RcTags[names[i]].accepted :
              i \in { j \in DOMAIN names : OfBase(names[j], v) } }

OfRcBase(name) == OfBase(name, rc_base)

Reverse(seq) == [i \in DOMAIN seq |-> seq[Len(seq) + 1 - i]]

\* C19: nextRcIndex returns 0 when no tag contributes a value, otherwise one
\* more than the largest rc index accepted from the tags that parse, carry a
\* prerelease and have the triple of base; the other tags never change the
\* result, nor does the order of the tag names.
C19_NextAfterLargestAccepted ==
    rc_index # NotCalled =>
        /\ rc_index.value =
              IF AcceptedRcIndices(rc_tags, rc_base) = {} THEN 0
              ELSE Max(AcceptedRcIndices(rc_tags, rc_base)) + 1
        /\ rc_index.value = nextRcIndex(rc_base, SelectSeq(rc_tags, OfRcBase))
        /\ rc_index.value = nextRcIndex(rc_base, Reverse(rc_tags))

\* C19 witness: the largest index comes first, before a tag of another
\* version with a larger index yet
C19_Witness ==
    /\ rc_base.major = 1
    /\ rc_tags = <<"v1.2.3-rc2", "v2.0.0-rc5", "v1.2.3-rc0">>
    /\ rc_index = Some(3)

-----------------------------------------------------------------------------
(* nextRcIndex, token by token: its inputs and its specification *)

\* tag names with the triple of the version they spell (none when the name
\* does not parse) and the tokens of their prerelease
TokenTags ==
    ("v1.2.3-rc" :> [triple |-> <<1, 2, 3>>, tokens |-> <<"rc">>])
    @@ ("v1.2.3-rc.0" :> [triple |-> <<1, 2, 3>>, tokens |-> <<"rc", "0">>])
    @@ ("v1.2.3-RC1" :> [triple |-> <<1, 2, 3>>, tokens |-> <<"RC1">>])
    @@ ("v1.2.3-Rc-2" :> [triple |-> <<1, 2, 3>>, tokens |-> <<"Rc", "2">>])
    @@ ("v1.2.3-rcX" :> [triple |-> <<1, 2, 3>>, tokens |-> <<"rcX">>])
    @@ ("v1.2.3-rc1x" :> [triple |-> <<1, 2, 3>>, tokens |-> <<"rc1x">>])
    @@ ("v1.2.3-xrc1" :> [triple |-> <<1, 2, 3>>, tokens |-> <<"xrc1">>])
    @@ ("v1.2.3-rc.beta" :> [triple |-> <<1, 2, 3>>, tokens |-> <<"rc", "beta">>])
    @@ ("v1.2.3-rc.beta.3" :>
          [triple |-> <<1, 2, 3>>, tokens |-> <<"rc", "beta", "3">>])
    @@ ("v1.2.3-preview" :> [triple |-> <<1, 2, 3>>, tokens |-> <<"preview">>])
    @@ ("v1.2.3-5" :> [triple |-> <<1, 2, 3>>, tokens |-> <<"5">>])
    @@ ("v1.2.3-4.rc" :> [triple |-> <<1, 2, 3>>, tokens |-> <<"4", "rc">>])
    @@ ("v1.2.3-rc--7" :> [triple |-> <<1, 2, 3>>, tokens |-> <<"rc", "", "7">>])
    @@ ("v1.2.3-rc-01" :> [triple |-> <<1, 2, 3>>, tokens |-> <<"rc", "01">>])
    @@ ("v1.2.3-rc.x-rc7" :>
          [triple |-> <<1, 2, 3>>, tokens |-> <<"rc", "x", "rc7">>])
    @@ ("v1.2.3-rc10.rc+b-1" :>
          [triple |-> <<1, 2, 3>>, tokens |-> <<"rc10", "rc">>])
    @@ ("v9.9.9-rc5" :> [triple |-> <<9, 9, 9>>, tokens |-> <<"rc5">>])
    @@ ("v1.2.3-rc_4" :> [triple |-> <<>>, tokens |-> <<>>])
    @@ ("rc1" :> [triple |-> <<>>, tokens |-> <<>>])
    @@ ("" :> [triple |-> <<>>, tokens |-> <<>>])

\* what a token is: rc with digits attached and their value, a bare rc, a
\* number and its value, or something else
Tokens25 ==
    ("rc" :> [kind |-> "bare", value |-> 0])
    @@ ("Rc" :> [kind |-> "bare", value |-> 0])
    @@ ("RC1" :> [kind |-> "inline", value |-> 1])
    @@ ("rc5" :> [kind |-> "inline", value |-> 5])
    @@ ("rc7" :> [kind |-> "inline", value |-> 7])
    @@ ("rc10" :> [kind |-> "inline", value |-> 10])
    @@ ("0" :> [kind |-> "number", value |-> 0])
    @@ ("01" :> [kind |-> "number", value |-> 1])
    @@ ("2" :> [kind |-> "number", value |-> 2])
    @@ ("3" :> [kind |-> "number", value |-> 3])
    @@ ("4" :> [kind |-> "number", value |-> 4])
    @@ ("5" :> [kind |-> "number", value |-> 5])
    @@ ("7" :> [kind |-> "number", value |-> 7])
    @@ ("rcX" :> [kind |-> "other", value |-> 0])
    @@ ("rc1x" :> [kind |-> "other", value |-> 0])
    @@ ("xrc1" :> [kind |-> "other", value |-> 0])
    @@ ("beta" :> [kind |-> "other", value |-> 0])
    @@ ("preview" :> [kind |-> "other", value |-> 0])
    @@ ("x" :> [kind |-> "other", value |-> 0])
    @@ ("" :> [kind |-> "other", value |-> 0])

\* the values the token at position i of tokens contributes
Contribution(tokens, i) ==
    IF Tokens25[tokens[i]].kind = "inline" THEN {Tokens25[tokens[i]].value}
    ELSE IF Tokens25[tokens[i]].kind = "bare"
    THEN IF i = Len(tokens) THEN {0}
         ELSE IF Tokens25[tokens[i + 1]].kind = "number"
         THEN {Tokens25[tokens[i + 1]].value}
         ELSE {}
    ELSE {}

\* all the values a tag contributes
TagContributions(name) ==
    UNION { Contribution(TokenTags[name].tokens, i) :
              i \in 1..Len(TokenTags[name].tokens) }

\* all the values the tags of base contribute
Contributions(base, names) ==
    UNION { TagContributions(names[k]) :
              k \in { n \in DOMAIN names :
                        TokenTags[names[n]].triple
                           = <<base.major, base.minor, base.patch>> } }

TagsByToken == UNION { [1..n -> DOMAIN TokenTags] : n \in 0..2 }

InitRcTokens ==
    /\ rc_base \in { SemanticVersion(1, 2, 3, undefined, undefined),
                     SemanticVersion(9, 9, 9, undefined, Some("b")) }
    /\ rc_tags \in TagsByToken
    /\ rc_index = NotCalled
    /\ IdleConventional /\ IdleParse /\ IdleVersion /\ IdleCompare /\ IdleResolver /\ IdleRest
SpecRcTokens == InitRcTokens /\ [][NextRc]_vars

\* C25: nextRcIndex splits the prerelease of a tag of base on ".", "-" and
\* "_"; a token rc<digits> (in any case) contributes that number, a bare rc
\* contributes 0 when it is the last token and the value of the next token
\* when that is all digits, every other token contributes nothing; and
\* nextRcIndex returns a number for every input, it never throws.
C25_TokenContributions ==
    rc_index # NotCalled =>
        /\ rc_index.value \in Nat
        /\ rc_index.value =
              IF Contributions(rc_base, rc_tags) = {} THEN 0
              ELSE Max(Contributions(rc_base, rc_tags)) + 1

\* C25 witness: a bare rc before a token that is not a number, which
\* contributes nothing, beside a bare rc that ends its tag
C25_Witness ==
    /\ rc_base.major = 1
    /\ rc_tags = <<"v1.2.3-rc.beta.3", "v1.2.3-4.rc">>
    /\ rc_index = Some(1)

-----------------------------------------------------------------------------
(* handle_release_candidates: its inputs and its specification *)

LabelNames ==
    {"release-candidate", "Release-Candidate", "bug", "release-candidate-2"}
Labels ==
    {undefined} \cup
    { Some(ls) : ls \in UNION { [1..n -> [name : LabelNames]] : n \in 0..MaxLabels } }

Tokens == {undefined, Some(""), Some("tok")}

LastReleases ==
    { SemanticVersion(0, 0, 0, undefined, undefined),
      SemanticVersion(1, 2, 0, undefined, undefined),
      SemanticVersion(1, 2, 3, undefined, undefined) }

\* outcomes of a lookup of tags: it throws, or it gives a list of names
LocalLookups ==
    { Thrown("git failed"), Some(<<>>), Some(<<"v1.2.3-rc0">>),
      Some(<<"v1.2.0-rc.0", "v1.2.0-rc.1">>),
      Some(<<"v1.3.0-rc.1", "v1.3.0-rc0", "junk">>) }
GithubLookups ==
    { Thrown("request failed"), Some(<<>>),
      Some(<<"v1.2.4-rc2", "v2.0.0-rc.0">>) }

ResolverArgs ==
    [token : Tokens,
     pr : [labels : Labels, merged : BOOLEAN],
     impact : Impact,
     last_release_version : LastReleases]

CallHandleReleaseCandidates ==
    /\ rc_prerelease = NotCalled
    /\ rc_prerelease' =
          handle_release_candidates(resolver_args.token, resolver_args.pr,
                                    resolver_args.impact,
                                    resolver_args.last_release_version)
    /\ UNCHANGED <<revision, resolver_args, local_rc, github_rc>>
    /\ UNCHANGED <<conventionalVars, semverVars, restVars>>

InitResolver ==
    /\ revision \in Revisions
    /\ resolver_args \in ResolverArgs
    /\ local_rc \in LocalLookups
    /\ github_rc \in GithubLookups
    /\ rc_prerelease = NotCalled
    /\ IdleConventional /\ IdleSemver /\ IdleRest
NextResolver == CallHandleReleaseCandidates
SpecResolver == InitResolver /\ [][NextResolver]_vars

-----------------------------------------------------------------------------
(* Properties of handle_release_candidates, checked under SpecResolver *)

\* C20: handle_release_candidates returns undefined for every merged pull
\* request, whatever its labels, the impact, the last release version and
\* the tags that exist.
C20_MergedNeverPrerelease ==
    (rc_prerelease # NotCalled /\ resolver_args.pr.merged)
        => rc_prerelease = undefined

\* C20 witness: a merged pull request carries the release-candidate label,
\* a token is there and the repository holds tags of release candidates
C20_Witness ==
    /\ rc_prerelease = undefined
    /\ resolver_args.pr.merged
    /\ resolver_args.pr.labels = Some(<<[name |-> "release-candidate"]>>)
    /\ resolver_args.token = Some("tok")
    /\ local_rc = Some(<<"v1.2.3-rc0">>)

\* the tags a lookup may find: the triple of the version each names, and the
\* rc indices its prerelease spells
FetchedTags ==
    ("v1.2.3-rc0" :> [triple |-> <<1, 2, 3>>, accepted |-> {0}])
    @@ ("v1.2.0-rc.0" :> [triple |-> <<1, 2, 0>>, accepted |-> {0}])
    @@ ("v1.2.0-rc.1" :> [triple |-> <<1, 2, 0>>, accepted |-> {1}])
    @@ ("v1.3.0-rc.1" :> [triple |-> <<1, 3, 0>>, accepted |-> {1}])
    @@ ("v1.3.0-rc0" :> [triple |-> <<1, 3, 0>>, accepted |-> {0}])
    @@ ("junk" :> [triple |-> <<>>, accepted |-> {}])
    @@ ("v1.2.4-rc2" :> [triple |-> <<1, 2, 4>>, accepted |-> {2}])
    @@ ("v2.0.0-rc.0" :> [triple |-> <<2, 0, 0>>, accepted |-> {0}])

\* the spellings of the label of a release candidate among the label names
ReleaseCandidateLabels == {"release-candidate", "Release-Candidate"}

Labelled(pull) ==
    /\ pull.labels # undefined
    /\ \E i \in DOMAIN pull.labels.value :
          pull.labels.value[i].name \in ReleaseCandidateLabels

\* the tag names the lookups give for the arguments of the call
FetchedNames ==
    getReleaseCandidatesSinceLatestRelease(
        resolver_args.token,
        bump(resolver_args.last_release_version, resolver_args.impact,
             undefined, undefined))

\* rc and the index after the largest one that the fetched tags of the
\* bumped triple spell, rc0 when there is none
ExpectedLabel ==
    LET triple == BumpedTriple(resolver_args.last_release_version,
                               resolver_args.impact)
        accepted == UNION { FetchedTags[FetchedNames[i]].accepted :
                       i \in { j \in DOMAIN FetchedNames :
                                 FetchedTags[FetchedNames[j]].triple = triple } }
    IN  Some("rc" \o NumberToString(IF accepted = {} THEN 0
                                    ELSE Max(accepted) + 1))

\* C21: for an unmerged pull request handle_release_candidates returns
\* undefined unless a label is named release-candidate in some letter case
\* (the whole name, not a part of it); with such a label it returns rc
\* followed by nextRcIndex of the bumped last release and the fetched tag
\* names.
C21_LabelDecidesNextRc ==
    (rc_prerelease # NotCalled /\ ~resolver_args.pr.merged) =>
        IF Labelled(resolver_args.pr)
        THEN /\ rc_prerelease = ExpectedLabel
             /\ rc_prerelease =
                   Some("rc" \o NumberToString(nextRcIndex(
                       bump(resolver_args.last_release_version,
                            resolver_args.impact, undefined, undefined),
                       FetchedNames)))
        ELSE rc_prerelease = undefined

\* the lookup failed or found nothing
FoundNothing(lookup) == IsThrown(lookup) \/ lookup = Some(<<>>)

\* C29: for an unmerged pull request with the release-candidate label
\* handle_release_candidates never propagates a failure of the tag lookups:
\* when the lookup in the local repository and the one through GitHub both
\* fail or find nothing, it still returns a label, rc0.
C29_LookupFailureGivesRc0 ==
    (rc_prerelease # NotCalled /\ ~resolver_args.pr.merged
     /\ Labelled(resolver_args.pr)) =>
        /\ ~IsThrown(rc_prerelease)
        /\ (FoundNothing(local_rc) /\ FoundNothing(github_rc))
              => rc_prerelease = Some("rc0")

-----------------------------------------------------------------------------
(* as_pep_440: its inputs and its specification *)

\* prereleases of the semver grammar, each with the rendering in which the
\* hyphens are dots and the letter runs alpha, beta and rc are a, b and rc
Pep440Prereleases ==
    ("alpha.1" :> "a.1") @@ ("beta.2" :> "b.2") @@ ("rc.1" :> "rc.1")
    @@ ("preview.5" :> "preview.5") @@ ("rc1" :> "rc1")
    @@ ("alpha-1" :> "a.1") @@ ("alpha1-beta2" :> "a1.b2")
    @@ ("Alpha" :> "Alpha") @@ ("alphabet.0" :> "alphabet.0")
    @@ ("x-rc" :> "x.rc") @@ ("0.3.7" :> "0.3.7") @@ ("1alpha" :> "1a")
    @@ ("constructor" :> "constructor") @@ ("toString.1" :> "toString.1")
    @@ ("" :> "")

Pep440Receivers ==
    { SemanticVersion(major, minor, patch, prerelease, buildmetadata) :
        major \in Numbers, minor \in Numbers, patch \in Numbers,
        prerelease \in {undefined}
                       \cup { Some(p) : p \in DOMAIN Pep440Prereleases },
        buildmetadata \in {undefined, Some(""), Some("build.5")} }

CallAsPep440 ==
    /\ pep_440 = NotCalled
    /\ pep_440' = Some(as_pep_440(pep_self))
    /\ UNCHANGED pep_self
    /\ UNCHANGED <<conventionalVars, semverVars, resolverVars, runVars,
                   cacheVars, notesVars>>

InitPep440 ==
    /\ pep_self \in Pep440Receivers
    /\ pep_440 = NotCalled
    /\ IdleConventional /\ IdleSemver /\ IdleResolver /\ IdleRun
    /\ IdleCache /\ IdleNotes
NextPep440 == CallAsPep440
SpecPep440 == InitPep440 /\ [][NextPep440]_vars

\* C22: as_pep_440 renders the triple immediately followed by the
\* prerelease with every hyphen a dot and the letter runs alpha, beta and rc
\* mapped to a, b and rc, every other letter run unchanged; the build
\* metadata is not in the output.
C22_Pep440Rendering ==
    pep_440 # NotCalled =>
        pep_440.value =
            NumberToString(pep_self.major) \o "."
            \o NumberToString(pep_self.minor) \o "."
            \o NumberToString(pep_self.patch)
            \o (IF pep_self.prerelease = undefined THEN ""
                ELSE Pep440Prereleases[pep_self.prerelease.value])

-----------------------------------------------------------------------------
(* main.ts: run.  The input release-notes-format is taken to be empty, so
   the format of the release notes is the default one. *)

\* release.name ?? release.tag_name ?? ''
ReleaseName(release) ==
    IF release.name # undefined THEN release.name.value
    ELSE IF release.tag_name # undefined THEN release.tag_name.value
    ELSE ""

\* mutant: a release name that does not parse counts as no release
LastReleaseVersionOrZero(release) ==
    IF release # undefined /\ parse(ReleaseName(release)) # undefined
    THEN parse(ReleaseName(release))
    ELSE SemanticVersion(0, 0, 0, undefined, undefined)

\* last_release_version, from what the lookup of the latest release gave
LastReleaseVersion(release) ==
    IF release # undefined THEN parse(ReleaseName(release))
    ELSE SemanticVersion(0, 0, 0, undefined, undefined)

\* String(err), for the error a constructor threw
ErrorString(err) == "Error: " \o err.error

\* the outputs run() sets once the release notes are written
Outputs(pull, imp, prerelease, new_version, notes) ==
    ("release" :> ((pull.merged /\ imp # NOIMPACT) \/ prerelease # undefined))
    @@ ("release-notes" :> notes)
    @@ ("release-notes-file" :> "./release-notes.md")
    @@ ("prerelease" :> (prerelease # undefined))
    @@ ("tag" :> as_tag(new_version))
    @@ ("version" :> toString(new_version))
    @@ ("version-pep-440" :> as_pep_440(new_version))

RunDone == UNCHANGED <<run_env, run_last, run_impact, run_prerelease,
                       run_version, run_files, run_outputs, run_summary>>

\* const token = ...; if (!token) { core.setFailed(...); return; }
RunToken ==
    /\ run_pc = "token"
    /\ IF revision = "part_003" /\ ~Truthy(run_env.token)
       THEN /\ run_failed' = Append(run_failed,
                   "No GITHUB_TOKEN available - cannot fetch releases")
            /\ run_pc' = "done"
       ELSE /\ run_pc' = "release"
            /\ UNCHANGED run_failed
    /\ RunDone
    /\ UNCHANGED <<conventionalVars, semverVars, resolverVars, pepVars,
                   cacheVars, notesVars>>

\* const release = await ...getLatestRelease(...), and its version
RunLatestRelease ==
    /\ run_pc = "release"
    /\ run_last' = LastReleaseVersion(run_env.release)
    /\ IF run_last' = undefined
       THEN /\ run_failed' = Append(run_failed,
                                    "Could not parse latest release version.")
            /\ run_pc' = "done"
       ELSE /\ run_pc' = "pull"
            /\ UNCHANGED run_failed
    /\ UNCHANGED <<run_env, run_impact, run_prerelease, run_version,
                   run_files, run_outputs, run_summary>>
    /\ UNCHANGED <<conventionalVars, semverVars, resolverVars, pepVars,
                   cacheVars, notesVars>>

\* const pr = gh.getPrFromContext()
RunPullRequest ==
    /\ run_pc = "pull"
    /\ IF run_env.pull = undefined
       THEN /\ run_failed' = Append(run_failed,
                                    "Could not find pull request in context.")
            /\ run_pc' = "done"
       ELSE /\ run_pc' = "impact"
            /\ UNCHANGED run_failed
    /\ RunDone
    /\ UNCHANGED <<conventionalVars, semverVars, resolverVars, pepVars,
                   cacheVars, notesVars>>

\* const commits = await gh.getPrCommits(token);
\* const impactRes = await getImpactFromGithub(pr, commits)
RunImpact ==
    /\ run_pc = "impact"
    /\ run_impact' = getImpactFromGithub(run_env.pull, run_env.commits)
    /\ run_failed' = run_failed
                     \o SetFailed(run_impact'.prImpact,
                                  run_impact'.maxCommitImpact)
    /\ run_pc' = IF run_impact'.finalImpact = undefined THEN "done"
                 ELSE "candidates"
    /\ UNCHANGED <<run_env, run_last, run_prerelease, run_version,
                   run_files, run_outputs, run_summary>>
    /\ UNCHANGED <<conventionalVars, semverVars, resolverVars, pepVars,
                   cacheVars, notesVars>>

\* const prerelease = await handle_release_candidates(...)
RunCandidates ==
    /\ run_pc = "candidates"
    /\ run_prerelease' =
          handle_release_candidates(run_env.token, run_env.pull,
                                    run_impact.finalImpact.impact, run_last)
    /\ run_pc' = "version"
    /\ UNCHANGED <<run_env, run_last, run_impact, run_version, run_failed,
                   run_files, run_outputs, run_summary>>
    /\ UNCHANGED <<conventionalVars, semverVars, resolverVars, pepVars,
                   cacheVars, notesVars>>

\* const new_version = new SemanticVersion(...), of the bumped base version,
\* the prerelease and the input build-metadata
RunVersion ==
    /\ run_pc = "version"
    /\ \E bumped_base_version \in
            { bump(run_last, run_impact.finalImpact.impact,
                   undefined, undefined) } :
          run_version' =
              SemanticVersion(bumped_base_version.major,
                              bumped_base_version.minor,
                              bumped_base_version.patch,
                              run_prerelease, Some(run_env.build_metadata))
    /\ IF IsThrown(run_version')
       THEN /\ run_failed' = Append(run_failed, ErrorString(run_version'))
            /\ run_pc' = "done"
       ELSE /\ run_pc' = "notes"
            /\ UNCHANGED run_failed
    /\ UNCHANGED <<run_env, run_last, run_impact, run_prerelease,
                   run_files, run_outputs, run_summary>>
    /\ UNCHANGED <<conventionalVars, semverVars, resolverVars, pepVars,
                   cacheVars, notesVars>>

\* await writeFile(filePath, release_notes, 'utf8'), which the file system
\* may refuse
RunWriteFile ==
    /\ run_pc = "notes"
    /\ \/ /\ run_files' = run_files \cup {"./release-notes.md"}
          /\ run_pc' = "outputs"
          /\ UNCHANGED run_failed
       \/ /\ run_failed' = Append(run_failed, "Error: EACCES")
          /\ run_pc' = "done"
          /\ UNCHANGED run_files
    /\ UNCHANGED <<run_env, run_last, run_impact, run_prerelease,
                   run_version, run_outputs, run_summary>>
    /\ UNCHANGED <<conventionalVars, semverVars, resolverVars, pepVars,
                   cacheVars, notesVars>>

\* the calls of core.setOutput and write_job_summary
RunOutputs ==
    /\ run_pc = "outputs"
    /\ run_outputs' = Outputs(run_env.pull, run_impact.finalImpact.impact,
                              run_prerelease, run_version, "%S")
    /\ run_summary' = TRUE
    /\ run_pc' = "done"
    /\ UNCHANGED <<run_env, run_last, run_impact, run_prerelease,
                   run_version, run_failed, run_files>>
    /\ UNCHANGED <<conventionalVars, semverVars, resolverVars, pepVars,
                   cacheVars, notesVars>>

-----------------------------------------------------------------------------
(* run: its inputs and its specification *)

\* what the lookup of the latest release gives: none, or a release with a
\* name and a tag name, either of which may be null
LatestReleases ==
    { undefined,
      [name |-> Some("v1.2.3"), tag_name |-> Some("v1.2.3")],
      [name |-> Some("1.2.3-rc1"), tag_name |-> undefined],
      [name |-> undefined, tag_name |-> Some("v0.9.0")],
      [name |-> Some("not-a-version"), tag_name |-> Some("v1.0.0")],
      [name |-> Some(""), tag_name |-> Some("v1.0.0")] }

RunTitles == {"feat: x", "fix: x", "feat!: x", "docs: x", "no type"}

\* the pull request of the context, if there is one
ContextPullRequests ==
    {undefined} \cup
    { [title |-> t, body |-> "", labels |-> Some(ls), merged |-> m] :
        t \in RunTitles,
        ls \in {<<>>, <<[name |-> "release-candidate"]>>},
        m \in BOOLEAN }

RunEnvironments ==
    [token : {undefined, Some("tok")},
     release : LatestReleases,
     pull : ContextPullRequests,
     commits : {<<>>, <<[title |-> "fix: y"]>>},
     build_metadata : {"", "build.5", "bad meta"}]

InitRun ==
    /\ revision \in Revisions
    /\ run_env \in RunEnvironments
    /\ local_rc \in {Some(<<>>), Some(<<"v1.2.4-rc0", "v1.3.0-rc.1">>)}
    /\ github_rc \in {Thrown("request failed"), Some(<<"v2.0.0-rc.0">>)}
    /\ collation \in Collations
    /\ run_pc = "token"
    /\ run_last = NotCalled /\ run_impact = NotCalled
    /\ run_prerelease = NotCalled /\ run_version = NotCalled
    /\ run_failed = <<>> /\ run_files = {} /\ run_outputs = <<>>
    /\ run_summary = FALSE
    /\ resolver_args = NotCalled /\ rc_prerelease = NotCalled
    /\ operands = NotCalled /\ order = NotCalled
    /\ IdleConventional /\ IdleParse /\ IdleVersion /\ IdleRc /\ IdlePep
    /\ IdleCache /\ IdleNotes
NextRun ==
    \/ RunToken
    \/ RunLatestRelease
    \/ RunPullRequest
    \/ RunImpact
    \/ RunCandidates
    \/ RunVersion
    \/ RunWriteFile
    \/ RunOutputs
SpecRun == InitRun /\ [][NextRun]_vars

-----------------------------------------------------------------------------
(* Properties of run, checked under SpecRun *)

\* the latest release was looked up and there is one
ReleaseFound == run_last # NotCalled /\ run_env.release # undefined

\* the name of the release the lookup gave is a version of the grammar
ReleaseNameParses ==
    ReleaseName(run_env.release) \in {"v1.2.3", "1.2.3-rc1", "v0.9.0"}

\* nothing was produced: no output is set and no file is written
NothingProduced ==
    /\ DOMAIN run_outputs
          \cap {"tag", "version", "version-pep-440", "release", "prerelease"}
          = {}
    /\ run_files = {}

\* C23: run() stops before it produces anything when a precondition fails.
\* A latest release whose name does not parse fails the run with 'Could not
\* parse latest release version.', a context without pull request fails it
\* with 'Could not find pull request in context.', and with no impact
\* determined the bump is skipped; in each case no output among tag,
\* version, version-pep-440, release and prerelease is ever set and no
\* release-notes file is written.
C23_StopsBeforeProducing ==
    /\ (ReleaseFound /\ ~ReleaseNameParses) =>
          /\ run_pc = "done"
          /\ run_failed = <<"Could not parse latest release version.">>
          /\ NothingProduced
    /\ (run_pc \notin {"token", "release", "pull"} /\ IsVersion(run_last)
        /\ run_env.pull = undefined) =>
          /\ run_pc = "done"
          /\ run_failed = <<"Could not find pull request in context.">>
          /\ NothingProduced
    /\ (run_impact # NotCalled /\ run_impact.finalImpact = undefined) =>
          /\ run_pc = "done"
          /\ run_version = NotCalled
          /\ NothingProduced

\* C23 witness: the latest release is named not-a-version and the run has
\* failed
C23_Witness ==
    /\ run_pc = "done"
    /\ ReleaseFound
    /\ ReleaseName(run_env.release) = "not-a-version"
    /\ run_failed = <<"Could not parse latest release version.">>

\* C28: whenever the final impact is PATCH, MINOR or MAJOR, the version
\* run() builds and emits (the bumped triple of the last release, with the
\* rc label of the resolver if there is one and with the build-metadata
\* input) is above the last release under SemanticVersion.compare, with
\* or without an rc prerelease, and also when the last release was a
\* prerelease itself.
C28_EmittedAboveLastRelease ==
    (IsVersion(run_version)
     /\ run_impact.finalImpact.impact \in {PATCH, MINOR, MAJOR}) =>
        /\ compare(run_version, run_last) = 1
        /\ compare(run_last, run_version) = -1
        /\ "version" \in DOMAIN run_outputs =>
              /\ run_outputs["version"] = toString(run_version)
              /\ compare(parse(run_outputs["tag"]), run_last) = 1

\* C28 witness: the last release is the prerelease 1.2.3-rc1, the pull
\* request is a labelled fix, the tag v1.2.4-rc0 exists and the input
\* build-metadata is given
C28_Witness ==
    /\ run_pc = "done"
    /\ "version" \in DOMAIN run_outputs
    /\ toString(run_last) = "1.2.3-rc1"
    /\ run_outputs["version"] = "1.2.4-rc1+build.5"
    /\ run_outputs["prerelease"] = TRUE

-----------------------------------------------------------------------------
(* utils.ts: LRUCache, and github.ts: the cached API operations of
   getLatestTag, getLatestRelease and getPrCommits.  A call runs without a
   break up to its return; the callbacks of a promise chain run later, one
   at a time, in between the calls and the callbacks of other chains. *)

\* most API operations the callers start
MaxOps == 3

\* position of key in the Map, 0 when it has no such key
KeyIndex(map, key) ==
    IF \E i \in DOMAIN map : map[i].key = key
    THEN CHOOSE i \in DOMAIN map : map[i].key = key
    ELSE 0

\* this.map.delete(key)
LRUCache_delete(map, key) == SelectSeq(map, LAMBDA e : e.key # key)

\* this.map.set(key, value), after a delete of the key when it is there
LRUCache_set(map, key, value) ==
    Append(LRUCache_delete(map, key), [key |-> key, value |-> value])

\* what get(key) returns
LRUCache_get(map, key) ==
    IF KeyIndex(map, key) = 0 THEN undefined
    ELSE Some(map[KeyIndex(map, key)].value)

\* the Map after get(key): the entry moves to the back
Refreshed(map, key) ==
    IF KeyIndex(map, key) = 0 THEN map
    ELSE LRUCache_set(map, key, map[KeyIndex(map, key)].value)

\* the cache keys: one for getLatestTag, one for getLatestRelease and one
\* for getPrCommits of a pull request
CacheKeys == {"latestTag:o/r", "latestRelease:o/r", "prCommits:o/r:1"}

\* getPrCommits calls listCommits before it builds the chain; the other two
\* call the API from the first callback of the chain
FirstStage(key) ==
    IF key = "prCommits:o/r:1" THEN "in flight" ELSE "scheduled"

\* the entries a delete of key takes out of the cache, each with the
\* operation o that calls it
Evicted(o, key) ==
    IF KeyIndex(gh_cache, key) = 0 THEN {}
    ELSE {<<o, gh_cache[KeyIndex(gh_cache, key)].value>>}

\* mutant: the callback of finally leaves the cache alone
FinallyKeepsEntry(map, key) == map

\* p.finally(() => GH_CACHE.delete(cacheKey))
Finally(map, key) == LRUCache_delete(map, key)

\* a call of getLatestTag, getLatestRelease or getPrCommits (on its API
\* path) for key, up to its return: the promise of the cache if there is
\* one, else a new chain whose promise is put in the cache
CallCached(key) ==
    /\ IF LRUCache_get(gh_cache, key) # undefined
       THEN /\ gh_cache' = Refreshed(gh_cache, key)
            /\ UNCHANGED operations
       ELSE /\ Len(operations) < MaxOps
            /\ operations' = Append(operations,
                  [key |-> key, stage |-> FirstStage(key), outcome |-> "none"])
            /\ gh_cache' = LRUCache_set(gh_cache, key, Len(operations) + 1)
    /\ UNCHANGED evictions
    /\ UNCHANGED <<conventionalVars, semverVars, resolverVars, pepVars,
                   runVars, notesVars>>

\* the first callback of the chain calls the API, which may throw at once
IssueRequest(o) ==
    /\ operations[o].stage = "scheduled"
    /\ \/ operations' = [operations EXCEPT ![o].stage = "in flight"]
       \/ operations' = [operations EXCEPT ![o].stage = "rejected",
                                           ![o].outcome = "failure"]
    /\ UNCHANGED <<gh_cache, evictions>>
    /\ UNCHANGED <<conventionalVars, semverVars, resolverVars, pepVars,
                   runVars, notesVars>>

\* the API operation settles: raw is fulfilled, and wrapped with it, or raw
\* is rejected
Settle(o) ==
    /\ operations[o].stage = "in flight"
    /\ \/ operations' = [operations EXCEPT ![o].stage = "resolved",
                                           ![o].outcome = "success"]
       \/ operations' = [operations EXCEPT ![o].stage = "rejected",
                                           ![o].outcome = "failure"]
    /\ UNCHANGED <<gh_cache, evictions>>
    /\ UNCHANGED <<conventionalVars, semverVars, resolverVars, pepVars,
                   runVars, notesVars>>

\* raw.catch((err) => { GH_CACHE.delete(cacheKey); ... }), which resolves
\* wrapped
CatchCallback(o) ==
    /\ operations[o].stage = "rejected"
    /\ gh_cache' = LRUCache_delete(gh_cache, operations[o].key)
    /\ evictions' = evictions \cup Evicted(o, operations[o].key)
    /\ operations' = [operations EXCEPT ![o].stage = "resolved"]
    /\ UNCHANGED <<conventionalVars, semverVars, resolverVars, pepVars,
                   runVars, notesVars>>

\* the callback of p.finally
FinallyCallback(o) ==
    /\ operations[o].stage = "resolved"
    /\ gh_cache' = Finally(gh_cache, operations[o].key)
    /\ evictions' = evictions \cup Evicted(o, operations[o].key)
    /\ operations' = [operations EXCEPT ![o].stage = "cleaned"]
    /\ UNCHANGED <<conventionalVars, semverVars, resolverVars, pepVars,
                   runVars, notesVars>>

InitCache ==
    /\ gh_cache = <<>> /\ operations = <<>> /\ evictions = {}
    /\ IdleConventional /\ IdleSemver /\ IdleResolver /\ IdlePep /\ IdleRun
    /\ IdleNotes
NextCache ==
    \/ \E key \in CacheKeys : CallCached(key)
    \/ \E o \in DOMAIN operations : IssueRequest(o)
    \/ \E o \in DOMAIN operations : Settle(o)
    \/ \E o \in DOMAIN operations : CatchCallback(o)
    \/ \E o \in DOMAIN operations : FinallyCallback(o)
SpecCache == InitCache /\ [][NextCache]_vars

-----------------------------------------------------------------------------
(* Properties of the cache, checked under SpecCache *)

\* the operations whose promise GH_CACHE holds
Cached == { gh_cache[i].value : i \in DOMAIN gh_cache }

\* C26: the entry of an operation is gone from GH_CACHE once the operation
\* has settled and its callbacks have run, after a success as after a
\* failure: the cache holds no entry of such an operation, so a call for a
\* key all of whose operations have come that far finds no entry.
C26_EvictedOnSettle ==
    /\ \A o \in Cached : operations[o].stage # "cleaned"
    /\ \A key \in CacheKeys :
          (\A o \in DOMAIN operations :
              operations[o].key = key => operations[o].stage = "cleaned")
              => LRUCache_get(gh_cache, key) = undefined

\* C26 witness: one operation has succeeded and one has failed, the
\* callbacks of both have run, and a third one was started after them
C26_Witness ==
    /\ Len(operations) = 3
    /\ operations[1].stage = "cleaned" /\ operations[1].outcome = "success"
    /\ operations[2].stage = "cleaned" /\ operations[2].outcome = "failure"
    /\ operations[2].key = operations[1].key
    /\ operations[3].key = operations[1].key
    /\ Cached = {3}

\* the operations of key whose API call has not settled
InFlight(key) ==
    { o \in DOMAIN operations :
        /\ operations[o].key = key
        /\ operations[o].stage \in {"scheduled", "in flight"} }

\* C27: under every interleaving of calls and callbacks at most one API
\* call per cache key is in flight, and the cleanup of an operation never
\* removes the cache entry of another one.
C27_OneInFlightPerKey ==
    /\ \A key \in CacheKeys : Cardinality(InFlight(key)) <= 1
    /\ \A e \in evictions : e[1] = e[2]

-----------------------------------------------------------------------------
(* release_notes.ts: generateReleaseNotes *)

\* lines.join('\n')
RECURSIVE JoinFrom(_, _)
JoinFrom(lines, i) ==
    IF i > Len(lines) THEN ""
    ELSE IF i = Len(lines) THEN lines[i]
    ELSE lines[i] \o "\n" \o JoinFrom(lines, i + 1)

JoinLines(lines) == CHOOSE r \in { JoinFrom(ls, 1) : ls \in {lines} } : TRUE

\* sha.slice(0, 7)
Slice7(sha) == SubSeq(sha, 1, IF Len(sha) < 7 THEN Len(sha) ELSE 7)

\* the line getReleaseNoteSection pushes for one commit
CommitLine(commit) ==
    "- " \o commit.title \o " (" \o Slice7(commit.sha) \o ")"

getReleaseNoteSection(section_title, cs) ==
    <<"## " \o section_title \o " \n">>
    \o [i \in 1..Len(cs) |-> CommitLine(cs[i])]
    \o <<"">>

\* The titles of the four sections. The source puts a pictograph and a
\* space in front of each; only the words are kept here.
BreakingChanges == "Breaking Changes"
NewFeatures == "New Features"
BugFixes == "Bug Fixes"
OtherChanges == "Other Changes"

\* the list a commit with this impact is pushed to, with every PATCH commit
\* among the fixes
ListOfPatchIsFix(commit_impact) ==
    IF commit_impact = undefined THEN "others"
    ELSE IF commit_impact.impact = MAJOR THEN "breaking"
    ELSE IF commit_impact.impact = MINOR THEN "features"
    ELSE IF commit_impact.impact = PATCH THEN "fixes"
    ELSE "others"

\* the list the switch over commit_impact?.impact pushes a commit with this
\* impact to
ListOf(commit_impact) ==
    IF commit_impact = undefined THEN "others"
    ELSE IF commit_impact.impact = MAJOR THEN "breaking"
    ELSE IF commit_impact.impact = MINOR THEN "features"
    ELSE IF commit_impact.impact = PATCH
         THEN (IF commit_impact.type = "fix" THEN "fixes" ELSE "others")
    ELSE "others"

\* the list each commit of cs is pushed to by the loop
Lists(cs) ==
    [i \in 1..Len(cs) |->
        CHOOSE l \in { ListOf(ci) : ci \in {getConventionalImpact(cs[i])} } :
            TRUE]

\* the commits the loop has pushed to one list, in the order of the loop
Pushed(cs, lists, list) ==
    LET at == SelectSeq([i \in 1..Len(cs) |-> i], LAMBDA i : lists[i] = list)
    IN  [k \in 1..Len(at) |-> cs[at[k]]]

\* one section of the notes: nothing when its list is empty
SectionLines(section_title, cs) ==
    IF Len(cs) > 0 THEN getReleaseNoteSection(section_title, cs) ELSE <<>>

generateReleaseNotes(cs) ==
    CHOOSE joined \in
      { JoinLines(<<"# Release Notes\n">>
          \o SectionLines(BreakingChanges, Pushed(cs, lists, "breaking"))
          \o SectionLines(NewFeatures, Pushed(cs, lists, "features"))
          \o SectionLines(BugFixes, Pushed(cs, lists, "fixes"))
          \o SectionLines(OtherChanges, Pushed(cs, lists, "others"))
          \o <<"">>) : lists \in {Lists(cs)} } : TRUE

-----------------------------------------------------------------------------
(* Release notes of every list of commits *)

\* commits as getCommitsBetween and getPrCommits build them: a title, a sha
\* and, for some, a body
NotesCommits ==
    { [title |-> "feat!: break", sha |-> "1111111aaaa"],
      [title |-> "feat: z", sha |-> "2222222bbbb"],
      [title |-> "fix: y", sha |-> "3333333cccc"],
      [title |-> "fix: y", sha |-> "4444444dddd"],
      [title |-> "fix: w", sha |-> "abc12"],
      [title |-> "fix: y", sha |-> "5555555eeee",
       body |-> PartText("breaking")],
      [title |-> "perf: p", sha |-> "6666666ffff"],
      [title |-> "refactor: r", sha |-> "7777777aaaa"],
      [title |-> "docs: x", sha |-> "8888888bbbb"],
      [title |-> "Fix: y", sha |-> "9999999cccc"],
      [title |-> "not conventional", sha |-> "aaaaaaa1111",
       body |-> PartText("breaking")],
      [title |-> "constructor: x", sha |-> "bbbbbbb2222"] }

NotesCommitLists == UNION { [1..n -> NotesCommits] : n \in 0..MaxCommits }

CallGenerateReleaseNotes ==
    /\ release_notes = NotCalled
    /\ release_notes' = Some(generateReleaseNotes(notes_commits))
    /\ UNCHANGED notes_commits
    /\ UNCHANGED <<conventionalVars, semverVars, resolverVars,
                   pepVars, runVars, cacheVars>>

InitNotes ==
    /\ IdleConventional /\ IdleSemver /\ IdleResolver
    /\ IdlePep /\ IdleRun /\ IdleCache
    /\ notes_commits \in NotesCommitLists
    /\ release_notes = NotCalled

NextNotes == CallGenerateReleaseNotes

SpecNotes == InitNotes /\ [][NextNotes]_vars

\* the titles of the sections, in the order of the notes
SectionTitles == <<BreakingChanges, NewFeatures, BugFixes, OtherChanges>>

\* the section the notes are to list a commit in
ClaimedSection(commit) ==
    CHOOSE t \in {BreakingChanges, NewFeatures, BugFixes, OtherChanges} :
      \E ci \in {getConventionalImpact(commit)} :
        /\ t = BreakingChanges <=> (ci # undefined /\ ci.impact = MAJOR)
        /\ t = NewFeatures <=> (ci # undefined /\ ci.impact = MINOR)
        /\ t = BugFixes <=>
              (ci # undefined /\ ci.impact = PATCH /\ ci.type = "fix")

\* the lines of a text that list a commit
IsEntry(line) == Len(line) >= 2 /\ SubSeq(line, 1, 2) = "- "

\* the positions of the heading of a section among the lines of a text
HeadingsOf(lines, section_title) ==
    { i \in 1..Len(lines) : lines[i] = "## " \o section_title \o " " }

\* the last of the entries that follow each other from line i on (i - 1 if
\* line i is no entry)
RECURSIVE EntriesEnd(_, _)
EntriesEnd(lines, i) ==
    IF i <= Len(lines) /\ IsEntry(lines[i])
    THEN EntriesEnd(lines, i + 1) ELSE i - 1

\* the entries the text lists under the heading at line h: the heading, an
\* empty line, the entries
ListedUnder(lines, h) == SubSeq(lines, h + 2, EntriesEnd(lines, h + 2))

\* the entries of the commits of cs that belong to a section, in the order
\* of cs
EntriesOf(cs, section_title) ==
    [i \in 1..Len(SelectSeq(cs, LAMBDA c : ClaimedSection(c) = section_title))
       |-> CommitLine(SelectSeq(cs,
               LAMBDA c : ClaimedSection(c) = section_title)[i])]

\* C30: the release notes list every commit once, under the heading of its
\* section and in the order of the input: Breaking Changes for MAJOR, New
\* Features for MINOR, Bug Fixes for PATCH of type fix, Other Changes for
\* the rest; a heading is there only when its section lists a commit.
C30_EveryCommitInOneSection ==
    release_notes # NotCalled =>
      \E lines \in {Split(release_notes.value, {"\n"})} :
        /\ Cardinality({ i \in 1..Len(lines) : IsEntry(lines[i]) })
              = Len(notes_commits)
        /\ \A k \in 1..Len(SectionTitles) :
             \E want \in {EntriesOf(notes_commits, SectionTitles[k])} :
             \E at \in {HeadingsOf(lines, SectionTitles[k])} :
               /\ Cardinality(at) = (IF want = <<>> THEN 0 ELSE 1)
               /\ \A h \in at : ListedUnder(lines, h) = want

\* C30 witness: notes of two different fixes, both under Bug Fixes, and no
\* other heading
C30_Witness ==
    /\ release_notes # NotCalled
    /\ Len(notes_commits) = 2
    /\ notes_commits[1].title = "fix: y" /\ notes_commits[2].title = "fix: w"
    /\ ~ HasBody(notes_commits[1])
    /\ release_notes.value =
          "# Release Notes\n\n## Bug Fixes \n\n- fix: y ("
          \o Slice7(notes_commits[1].sha) \o ")\n- fix: w (abc12)\n\n"

====
